---- MODULE Spec2Model ----
(***************************************************************************)
(* A model of the simple-dgm self-improvement framework:                   *)
(*   - SimpleArchive        (src/simple-dgm/archive.py)                    *)
(*   - SWEBenchEvaluator    (src/simple-dgm/evaluator.py)                  *)
(*   - SWEBenchLoader       (src/simple-dgm/swe_bench_loader.py)           *)
(*   - InfiniteSelfImprovingFramework (src/simple-dgm/main.py)             *)
(* Each component has its own specification over the shared variables:     *)
(*   ArchiveSpec  the archive's operations on the sqlite store,            *)
(*   LineageSpec  save_agent with parent links, cleanup and get_lineage,   *)
(*   ExtractSpec  extract_patch_from_solution on bounded inputs,           *)
(*   PatchSpec    evaluate_patch on bounded inputs,                        *)
(*   LoopSpec     run_infinite_improvement and the SIGINT handler,         *)
(*   Spec         evaluate_agent running batches of instances.             *)
(***************************************************************************)
EXTENDS Integers, Sequences, FiniteSets, TLC

\* Python's None / SQL NULL.
None == "None"

----------------------------------------------------------------------------
\* Bounds of the model.

\* save_agent calls that reach their INSERT (ids handed out by AUTOINCREMENT).
MaxSaves == 2
\* Largest value of CURRENT_TIMESTAMP (seconds; two inserts may share one).
MaxTime == 1
\* Largest score level stored in the archive (scores are only compared).
MaxScore == 1
\* Largest k of select_parents and keep_n of cleanup_old_agents.
MaxK == 3
\* Longest solution text, in lines.
MaxLines == 3
\* Instances the benchmark loader returns at most.
MaxInstances == 2
\* Recorded runs of evaluate_agent.
MaxRuns == 2
\* Instances evaluated over all runs.
MaxEvals == 2

Scores == 0..MaxScore
AgentIds == 1..MaxSaves
\* parent_id NULL (Python None) is written 0: AUTOINCREMENT ids start at 1.
NoParent == 0
\* parent_id values a caller passes: none, a stored id, an id never stored.
ParentIds == {NoParent} \cup AgentIds \cup {MaxSaves + 1}

----------------------------------------------------------------------------
VARIABLES
    \* ---- SimpleArchive: the committed content of archive/agents.db
    agents,               \* table agents: set of rows
    performance_history,  \* table performance_history: set of rows
    agent_seq,            \* sqlite_sequence of agents (AUTOINCREMENT)
    perf_seq,             \* sqlite_sequence of performance_history
    now,                  \* CURRENT_TIMESTAMP
    conn,                 \* the open connection of save_agent: its uncommitted writes
    call,                 \* the archive call in progress or just returned
    \* ---- extract_patch_from_solution: one call, its inputs and its result
    extract,
    \* ---- SWEBenchEvaluator / SWEBenchLoader
    current_instances,    \* the instances loaded at construction
    results_history,      \* one entry per recorded run of evaluate_agent
    sandboxes,            \* instance ids whose repos/<instance_id> directory exists
    ev,                   \* the call of evaluate_agent in progress or just returned
    evaluation,           \* one call of evaluate_patch, its inputs and its result
    metrics,              \* one call of get_improvement_metrics and its result
    setup,                \* one call of setup_repository, the disk and its result
    runs,                 \* one instance evaluated in two runs, side by side
    \* ---- InfiniteSelfImprovingFramework (src/simple-dgm/main.py)
    loop,                 \* the process running run_infinite_improvement
    \* ---- SelfImprovingFramework (src/main.py)
    framework             \* the object and the position of run_evolution_loop

archiveVars == <<agents, performance_history, agent_seq, perf_seq, now, conn, call>>
extractVars == <<extract>>
evalVars == <<current_instances, results_history, sandboxes, ev>>
patchVars == <<evaluation>>
unitVars == <<metrics, setup, runs, framework>>
loopVars == <<loop>>

vars == <<agents, performance_history, agent_seq, perf_seq, now, conn, call, extract,
          current_instances, results_history, sandboxes, ev, evaluation, metrics,
          setup, runs, loop, framework>>

----------------------------------------------------------------------------
\* Generic helpers.

Min(a, b) == IF a < b THEN a ELSE b

Range(s) == {s[i] : i \in 1..Len(s)}

\* s[1..n] (Python's s[:n]).
Take(s, n) == SubSeq(s, 1, Min(n, Len(s)))

----------------------------------------------------------------------------
\* SimpleArchive

\* No call of extract_patch_from_solution.
NoExtract == [pc |-> "off"]

IdleConn == [pc |-> "idle", agents |-> {}, perf |-> {}, lastrowid |-> 0]
NoCall == [op |-> "none", arg |-> None, pc |-> "done", ret |-> None, cur |-> NoParent, exc |-> None]

\* The store init_database creates.
EmptyArchive ==
    /\ agents = {}
    /\ performance_history = {}
    /\ agent_seq = 0
    /\ perf_seq = 0
    /\ now = 0
    /\ conn = IdleConn
    /\ call = NoCall

\* An evaluator that is never called.
NoEvaluator ==
    /\ current_instances = <<>>
    /\ results_history = <<>>
    /\ sandboxes = {}
    /\ ev = [pc |-> "off"]

\* No call of evaluate_patch on its own, no framework process.
NoEvaluation == [pc |-> "off"]
NoLoop == [pc |-> "off"]

\* No call of get_improvement_metrics or setup_repository on its own, no
\* pair of runs.
NoUnitCall ==
    /\ metrics = [pc |-> "off"]
    /\ setup = [pc |-> "off"]
    /\ runs = [pc |-> "off"]
    /\ framework = [pc |-> "off"]

ArchiveInit ==
    /\ EmptyArchive
    /\ extract = NoExtract
    /\ NoEvaluator
    /\ evaluation = NoEvaluation
    /\ NoUnitCall
    /\ loop = NoLoop

\* No archive call is executing: the caller may start the next one.
Idle == call.pc = "done" /\ conn.pc = "idle"

Functional(A) == {a \in A : a.is_functional}

\* One row of table agents as save_agent inserts it (code, description and
\* metadata are opaque text the archive never inspects).
AgentRow(id, score, created_at, parent_id, is_functional) ==
    [id |-> id, score |-> score, created_at |-> created_at,
     parent_id |-> parent_id, is_functional |-> is_functional]

PerfRow(id, agent_id, score) ==
    [id |-> id, agent_id |-> agent_id, test_name |-> "main_benchmark", score |-> score]

\* The call op(arg) returned ret / raised exc to its caller.
Returned(op, arg, ret) ==
    [op |-> op, arg |-> arg, pc |-> "done", ret |-> ret, cur |-> NoParent, exc |-> None]

Raised(op, arg, exc) ==
    [op |-> op, arg |-> arg, pc |-> "done", ret |-> None, cur |-> NoParent, exc |-> exc]

\* Optional[Dict]: a row, or None.
Some(row) == <<row>>
Nothing == <<>>

\* save_agent on a connection in autocommit mode: the INSERT is committed at
\* once, before the performance record is written.
SaveInsertAgentAutocommit(score, parent_id, is_functional, t) ==
    /\ Idle
    /\ agent_seq < MaxSaves
    /\ t >= now /\ t <= MaxTime
    /\ now' = t
    /\ agents' = agents \cup {AgentRow(agent_seq + 1, score, t, parent_id, is_functional)}
    /\ agent_seq' = agent_seq + 1
    /\ conn' = [pc |-> "agent_inserted",
                agents |-> {AgentRow(agent_seq + 1, score, t, parent_id, is_functional)},
                perf |-> {},
                lastrowid |-> agent_seq + 1]
    /\ call' = [op |-> "save_agent", arg |-> None, pc |-> "running", ret |-> None,
                cur |-> NoParent, exc |-> None]
    /\ UNCHANGED <<performance_history, perf_seq, extractVars, unitVars, patchVars, loopVars, evalVars>>

\* save_agent on a table whose id is INTEGER PRIMARY KEY without
\* AUTOINCREMENT: the new rowid is one more than the largest stored.
SaveInsertAgentReusingRowid(score, parent_id, is_functional, t) ==
    /\ Idle
    /\ agent_seq < MaxSaves
    /\ t >= now /\ t <= MaxTime
    /\ now' = t
    /\ \E top \in {0} \cup {a.id : a \in agents} :
          /\ \A a \in agents : a.id <= top
          /\ conn' = [pc |-> "agent_inserted",
                      agents |-> {AgentRow(top + 1, score, t, parent_id, is_functional)},
                      perf |-> {},
                      lastrowid |-> top + 1]
    /\ call' = [op |-> "save_agent", arg |-> None, pc |-> "running", ret |-> None,
                cur |-> NoParent, exc |-> None]
    /\ UNCHANGED <<agents, performance_history, agent_seq, perf_seq, extractVars, unitVars, patchVars, loopVars, evalVars>>

\* save_agent, first half: connect, then INSERT INTO agents. sqlite3 opens a
\* transaction before the INSERT; the row stays in the connection until COMMIT.
\* t is the CURRENT_TIMESTAMP the INSERT reads (the clock never goes back).
SaveInsertAgent(score, parent_id, is_functional, t) ==
    /\ Idle
    /\ agent_seq < MaxSaves
    /\ t >= now /\ t <= MaxTime
    /\ now' = t
    /\ conn' = [pc |-> "agent_inserted",
                agents |-> {AgentRow(agent_seq + 1, score, t, parent_id, is_functional)},
                perf |-> {},
                lastrowid |-> agent_seq + 1]
    /\ call' = [op |-> "save_agent", arg |-> None, pc |-> "running", ret |-> None,
                cur |-> NoParent, exc |-> None]
    /\ UNCHANGED <<agents, performance_history, agent_seq, perf_seq, extractVars, unitVars, patchVars, loopVars, evalVars>>

\* save_agent: agent_id = cursor.lastrowid; INSERT INTO performance_history,
\* in the same transaction.
SaveInsertPerf ==
    /\ conn.pc = "agent_inserted"
    /\ conn' = [conn EXCEPT !.pc = "perf_inserted",
                            !.perf = {PerfRow(perf_seq + 1, conn.lastrowid,
                                              (CHOOSE a \in conn.agents : TRUE).score)}]
    /\ UNCHANGED <<agents, performance_history, agent_seq, perf_seq, now, call, extractVars, unitVars, patchVars, loopVars, evalVars>>

\* save_agent: conn.commit(); conn.close(); return agent_id.
SaveCommit ==
    /\ conn.pc = "perf_inserted"
    /\ agents' = agents \cup conn.agents
    /\ performance_history' = performance_history \cup conn.perf
    /\ agent_seq' = conn.lastrowid
    /\ perf_seq' = perf_seq + 1
    /\ conn' = IdleConn
    /\ call' = Returned("save_agent", None, conn.lastrowid)
    /\ UNCHANGED <<now, extractVars, unitVars, patchVars, loopVars, evalVars>>

\* save_agent: a statement or the commit raises (store unavailable, write
\* rejected) or the process is interrupted. Nothing catches it in save_agent:
\* the connection is dropped without COMMIT, sqlite rolls the transaction
\* back and the error reaches the caller.
SaveFail ==
    /\ conn.pc \in {"agent_inserted", "perf_inserted"}
    /\ conn' = IdleConn
    /\ call' = Raised("save_agent", conn.pc, "PersistenceFailure")
    /\ UNCHANGED <<agents, performance_history, agent_seq, perf_seq, now, extractVars, unitVars, patchVars, loopVars, evalVars>>

\* get_agent: SELECT ... WHERE id = ?; fetchone() (HasAgent: a row came back).
HasAgent(agent_id) == \E a \in agents : a.id = agent_id

GetAgent(agent_id) == CHOOSE a \in agents : a.id = agent_id

\* ORDER BY score DESC, created_at DESC: a may come before b.
ByScoreThenCreatedDesc(a, b) ==
    \/ a.score > b.score
    \/ a.score = b.score /\ a.created_at >= b.created_at

\* ORDER BY created_at DESC.
ByCreatedDesc(a, b) == a.created_at >= b.created_at

\* get_best_agent with ORDER BY score DESC alone.
BestRowsScoreOnly(A) ==
    {a \in Functional(A) : \A b \in Functional(A) : a.score >= b.score}

\* get_best_agent: WHERE is_functional = 1 ORDER BY score DESC, created_at DESC
\* LIMIT 1; fetchone() (None when no row).
BestRows(A) ==
    {a \in Functional(A) : \A b \in Functional(A) : ByScoreThenCreatedDesc(a, b)}

GetBestAgent ==
    /\ Idle
    /\ IF Functional(agents) = {}
       THEN call' = Returned("get_best_agent", None, Nothing)
       ELSE \E r \in BestRows(agents) : call' = Returned("get_best_agent", None, Some(r))
    /\ UNCHANGED <<agents, performance_history, agent_seq, perf_seq, now, conn, extractVars, unitVars, patchVars, loopVars, evalVars>>

\* get_agent(agent_id) called: the row as a dict, or None.
GetAgentCall(agent_id) ==
    /\ Idle
    /\ call' = Returned("get_agent", agent_id,
                        IF HasAgent(agent_id) THEN Some(GetAgent(agent_id)) ELSE Nothing)
    /\ UNCHANGED <<agents, performance_history, agent_seq, perf_seq, now, conn, extractVars, unitVars, patchVars, loopVars, evalVars>>

\* get_top_agents(n): WHERE is_functional = 1 ORDER BY score DESC,
\* created_at DESC LIMIT n; the lists it may return.
TopAgents(A, n) ==
    {s \in [1..Min(n, Cardinality(Functional(A))) -> Functional(A)] :
        /\ \A i, j \in 1..Len(s) : i # j => s[i] # s[j]
        /\ \A i \in 1..(Len(s) - 1) : ByScoreThenCreatedDesc(s[i], s[i + 1])
        /\ \A x \in Range(s), y \in Functional(A) \ Range(s) :
              ByScoreThenCreatedDesc(x, y)}

GetTopAgents(n) ==
    /\ Idle
    /\ \E s \in TopAgents(agents, n) : call' = Returned("get_top_agents", n, s)
    /\ UNCHANGED <<agents, performance_history, agent_seq, perf_seq, now, conn, extractVars, unitVars, patchVars, loopVars, evalVars>>

\* export_best_agent(output_path): the best agent written to the file, or
\* nothing written when get_best_agent returns None.
ExportBestAgent ==
    /\ Idle
    /\ IF Functional(agents) = {}
       THEN call' = Returned("export_best_agent", None, Nothing)
       ELSE \E r \in BestRows(agents) :
               call' = Returned("export_best_agent", None, Some(r))
    /\ UNCHANGED <<agents, performance_history, agent_seq, perf_seq, now, conn, extractVars, unitVars, patchVars, loopVars, evalVars>>

\* get_all_agents(functional_only=True): the functional rows, newest first.
\* (Rows sharing a created_at come back in either order.)
GetAllAgents(A) ==
    {s \in [1..Cardinality(Functional(A)) -> Functional(A)] :
        /\ \A i, j \in 1..Cardinality(Functional(A)) : i # j => s[i] # s[j]
        /\ \A i \in 1..(Cardinality(Functional(A)) - 1) : ByCreatedDesc(s[i], s[i + 1])}

\* sorted(rows, key=score, reverse=True): Python's sort is stable, also with
\* reverse=True, so rows of equal score keep the order they had in rows.
SortedByScoreDesc(rows) ==
    CHOOSE s \in [1..Len(rows) -> Range(rows)] :
        /\ \A i, j \in 1..Len(rows) : i # j => s[i] # s[j]
        /\ \A i, j \in 1..Len(rows) :
              i < j =>
                \/ s[i].score > s[j].score
                \/ /\ s[i].score = s[j].score
                   /\ (CHOOSE x \in 1..Len(rows) : rows[x] = s[i])
                        < (CHOOSE y \in 1..Len(rows) : rows[y] = s[j])

\* select_parents(k): what it returns for the rows get_all_agents gave.
SelectFrom(functional_agents, k) ==
    IF functional_agents = <<>>
    THEN <<>>
    ELSE IF Len(functional_agents) < k
         THEN functional_agents
         ELSE Take(SortedByScoreDesc(functional_agents), k)

SelectParents(k) ==
    /\ Idle
    /\ \E functional_agents \in GetAllAgents(agents) :
          call' = Returned("select_parents", k, SelectFrom(functional_agents, k))
    /\ UNCHANGED <<agents, performance_history, agent_seq, perf_seq, now, conn, extractVars, unitVars, patchVars, loopVars, evalVars>>

\* get_lineage: lineage = [], current_id = agent_id.
MaxLineage == MaxSaves + 1

GetLineageStart(agent_id) ==
    /\ Idle
    /\ call' = [op |-> "get_lineage", arg |-> agent_id, pc |-> "loop",
                ret |-> <<>>, cur |-> agent_id, exc |-> None]
    /\ UNCHANGED <<agents, performance_history, agent_seq, perf_seq, now, conn, extractVars, unitVars, patchVars, loopVars, evalVars>>

\* get_lineage that appends the row but does not move to its parent.
GetLineageStepNoAdvance ==
    /\ call.op = "get_lineage" /\ call.pc = "loop"
    /\ Len(call.ret) < MaxSaves + 1
    /\ IF call.cur = NoParent
       THEN call' = [call EXCEPT !.pc = "done"]
       ELSE IF HasAgent(call.cur)
            THEN call' = [call EXCEPT !.ret = Append(@, GetAgent(call.cur))]
            ELSE call' = [call EXCEPT !.pc = "done"]
    /\ UNCHANGED <<agents, performance_history, agent_seq, perf_seq, now, conn, extractVars, unitVars, patchVars, loopVars, evalVars>>

\* get_lineage: one pass of `while current_id is not None`; the loop has no
\* other exit than a None parent or a missing row (the model stops following
\* a chain longer than MaxLineage, which only a cycle produces).
GetLineageStep ==
    /\ call.op = "get_lineage" /\ call.pc = "loop"
    /\ Len(call.ret) < MaxLineage
    /\ IF call.cur = NoParent
       THEN call' = [call EXCEPT !.pc = "done"]
       ELSE IF HasAgent(call.cur)
            THEN call' = [call EXCEPT !.ret = Append(@, GetAgent(call.cur)),
                                      !.cur = GetAgent(call.cur).parent_id]
            ELSE call' = [call EXCEPT !.pc = "done"]
    /\ UNCHANGED <<agents, performance_history, agent_seq, perf_seq, now, conn, extractVars, unitVars, patchVars, loopVars, evalVars>>

\* A quotient of two counts, kept exact.
Frac(n, d) == [num |-> n, den |-> d]

MaxOf(S) == CHOOSE x \in S : \A y \in S : x >= y

\* get_statistics dividing without the total_agents > 0 test.
StatisticsNoGuard(A) ==
    [total_agents |-> Cardinality(A),
     functional_agents |-> Cardinality(Functional(A)),
     success_rate |-> Frac(Cardinality(Functional(A)), Cardinality(A)),
     best_score |-> IF Functional(A) = {}
                    THEN 0
                    ELSE MaxOf({a.score : a \in Functional(A)})]

\* get_statistics: COUNT(*), COUNT(*) WHERE is_functional = 1, MAX(score),
\* and success_rate = functional / total if total > 0 else 0.
Statistics(A) ==
    [total_agents |-> Cardinality(A),
     functional_agents |-> Cardinality(Functional(A)),
     success_rate |-> IF Cardinality(A) > 0
                      THEN Frac(Cardinality(Functional(A)), Cardinality(A))
                      ELSE Frac(0, 1),
     best_score |-> IF Functional(A) = {}
                    THEN 0
                    ELSE MaxOf({a.score : a \in Functional(A)})]

GetStatistics ==
    /\ Idle
    /\ call' = Returned("get_statistics", None, Statistics(agents))
    /\ UNCHANGED <<agents, performance_history, agent_seq, perf_seq, now, conn, extractVars, unitVars, patchVars, loopVars, evalVars>>

\* cleanup_old_agents whose subquery orders by score ASC.
TopFunctionalAsc(A, keep_n) ==
    {K \in SUBSET Functional(A) :
        /\ Cardinality(K) = Min(keep_n, Cardinality(Functional(A)))
        /\ \A x \in K, y \in Functional(A) \ K : x.score <= y.score}

\* cleanup_old_agents: the ids SELECT ... WHERE is_functional = 1 ORDER BY
\* score DESC LIMIT keep_n may return (rows of equal score in any order).
TopFunctional(A, keep_n) ==
    {K \in SUBSET Functional(A) :
        /\ Cardinality(K) = Min(keep_n, Cardinality(Functional(A)))
        /\ \A x \in K, y \in Functional(A) \ K : x.score >= y.score}

\* cleanup_old_agents retiring the rows outside the top with an UPDATE of
\* is_functional in place of the DELETE.
CleanupMarkingNotFunctional(keep_n) ==
    /\ Idle
    /\ \E K \in TopFunctional(agents, keep_n) :
          agents' = {IF a \notin K /\ a.is_functional
                     THEN [a EXCEPT !.is_functional = FALSE] ELSE a : a \in agents}
    /\ call' = Returned("cleanup_old_agents", keep_n, None)
    /\ UNCHANGED <<performance_history, agent_seq, perf_seq, now, conn, extractVars, unitVars, patchVars, loopVars, evalVars>>

\* cleanup_old_agents: DELETE FROM agents WHERE id NOT IN (top) AND
\* is_functional = 1; commit. performance_history is not touched.
CleanupOldAgents(keep_n) ==
    /\ Idle
    /\ \E K \in TopFunctional(agents, keep_n) :
          agents' = {a \in agents : ~(a \notin K /\ a.is_functional)}
    /\ call' = Returned("cleanup_old_agents", keep_n, None)
    /\ UNCHANGED <<performance_history, agent_seq, perf_seq, now, conn, extractVars, unitVars, patchVars, loopVars, evalVars>>

\* The archive's operations on variants saved without a parent (the parent
\* link is read by get_lineage only: LineageSpec).
ArchiveNext ==
    \/ \E score \in Scores, is_functional \in BOOLEAN, t \in now..(now + 1) :
          SaveInsertAgent(score, NoParent, is_functional, t)
    \/ SaveInsertPerf
    \/ SaveCommit
    \/ SaveFail
    \/ \E agent_id \in AgentIds : GetAgentCall(agent_id)
    \/ GetBestAgent
    \/ \E n \in 1..MaxK : GetTopAgents(n)
    \/ \E k \in 1..MaxK : SelectParents(k)
    \/ GetStatistics
    \/ ExportBestAgent
    \/ \E keep_n \in 0..MaxK : CleanupOldAgents(keep_n)

ArchiveSpec == ArchiveInit /\ [][ArchiveNext]_vars

\* The archive's parent links: functional variants saved with any parent id
\* the caller passes (save_agent does not look at it), cleanup, get_lineage.
LineageNext ==
    \/ \E score \in Scores, parent_id \in ParentIds :
          SaveInsertAgent(score, parent_id, TRUE, now)
    \/ SaveInsertPerf
    \/ SaveCommit
    \/ SaveFail
    \/ \E agent_id \in AgentIds : GetLineageStart(agent_id)
    \/ GetLineageStep
    \/ \E keep_n \in 0..MaxK : CleanupOldAgents(keep_n)

\* get_lineage runs to its end once called: the loop is not preempted.
LineageSpec == ArchiveInit /\ [][LineageNext]_vars /\ WF_vars(GetLineageStep)

----------------------------------------------------------------------------
\* extract_patch_from_solution (SWEBenchEvaluator)

\* A text is the sequence of its lines (solution.split('\n')); "" is <<>>.
\* The lines a solution is made of: prose, a line starting with "diff --git",
\* a line of a diff body, an opening fence with the word diff, a closing fence, and
\* a line of six backticks.
DiffHeader == "diff --git a/f b/f"
\* (FENCE stands for three backticks.)
FenceOpen == "FENCEdiff"
FenceClose == "FENCE"
SixBackticks == "FENCEFENCE"
SolutionLines == {"text", DiffHeader, "+x", FenceOpen, FenceClose, SixBackticks}

\* All texts of at most n lines.
Texts(n) == UNION {[1..m -> SolutionLines] : m \in 0..n}

\* The sandbox's working tree as git sees it, and what the commands of
\* strategies 3 and 4 answer on it.
Trees == {"clean", "modified", "untracked", "no_repo"}
WorkingTreeDiff == <<DiffHeader, "+w">>
StagedDiff == <<DiffHeader, "+u">>

\* cd repo_dir && git diff
GitDiff(tree) ==
    CASE tree = "modified" -> [returncode |-> 0, stdout |-> WorkingTreeDiff]
      [] tree = "no_repo" -> [returncode |-> 128, stdout |-> <<>>]
      [] OTHER -> [returncode |-> 0, stdout |-> <<>>]

\* cd repo_dir && git status --porcelain
GitStatus(tree) ==
    CASE tree = "modified" -> [returncode |-> 0, stdout |-> <<" M f">>]
      [] tree = "untracked" -> [returncode |-> 0, stdout |-> <<"?? u">>]
      [] tree = "staged" -> [returncode |-> 0, stdout |-> <<"A  u">>]
      [] tree = "no_repo" -> [returncode |-> 128, stdout |-> <<>>]
      [] OTHER -> [returncode |-> 0, stdout |-> <<>>]

\* cd repo_dir && git add -A
GitAddAll(tree) == IF tree \in {"modified", "untracked"} THEN "staged" ELSE tree

\* cd repo_dir && git diff --cached
GitDiffCached(tree) ==
    CASE tree = "staged" -> [returncode |-> 0, stdout |-> StagedDiff]
      [] tree = "no_repo" -> [returncode |-> 128, stdout |-> <<>>]
      [] OTHER -> [returncode |-> 0, stdout |-> <<>>]

\* What can go wrong inside the try block: re.findall raising (solution is
\* not a string), subprocess.run raising.
Faults == {"none", "findall_raises", "subprocess_raises"}

\* diff_pattern is six backticks; re.findall(diff_pattern, solution, re.DOTALL):
\* the pattern has no group and no wildcard, so each match is the six
\* backticks themselves.
DiffMatches(solution) == SelectSeq(solution, LAMBDA line : line = SixBackticks)

\* line.startswith('diff --git')
StartsWithDiffGit(line) == line = DiffHeader

\* Strategy 2: the lines from the first one starting with "diff --git" on.
DiffLines(solution) ==
    IF \E i \in 1..Len(solution) : StartsWithDiffGit(solution[i])
    THEN SubSeq(solution,
                CHOOSE i \in 1..Len(solution) :
                    /\ StartsWithDiffGit(solution[i])
                    /\ \A j \in 1..(i - 1) : ~StartsWithDiffGit(solution[j]),
                Len(solution))
    ELSE <<>>

\* What one call leaves behind: the text returned, the commands run in the
\* sandbox, the sandbox's tree afterwards, whether the except clause ran.
Extracted(patch, cmds, tree, caught) ==
    [patch |-> patch, cmds |-> cmds, tree |-> tree, caught |-> caught]

\* Strategy 4, after git status reported changes: git add -A, git diff --cached.
StageAndDiff(tree) ==
    IF GitDiffCached(GitAddAll(tree)).returncode = 0
    THEN Extracted(GitDiffCached(GitAddAll(tree)).stdout,
                   <<"git diff", "git status", "git add", "git diff --cached">>,
                   GitAddAll(tree), FALSE)
    ELSE Extracted(<<>>, <<"git diff", "git status", "git add", "git diff --cached">>,
                   GitAddAll(tree), FALSE)

\* extract_patch_from_solution(solution, repo_dir), strategy by strategy.
ExtractPatchFromSolution(solution, tree, fault) ==
    IF fault = "findall_raises"
    THEN Extracted(<<>>, <<>>, tree, TRUE)
    ELSE IF DiffMatches(solution) # <<>>
    THEN Extracted(<<DiffMatches(solution)[1]>>, <<>>, tree, FALSE)
    ELSE IF DiffLines(solution) # <<>>
    THEN Extracted(DiffLines(solution), <<>>, tree, FALSE)
    ELSE IF fault = "subprocess_raises"
    THEN Extracted(<<>>, <<"git diff">>, tree, TRUE)
    ELSE IF GitDiff(tree).returncode = 0 /\ GitDiff(tree).stdout # <<>>
    THEN Extracted(GitDiff(tree).stdout, <<"git diff">>, tree, FALSE)
    ELSE IF GitStatus(tree).stdout # <<>>
    THEN StageAndDiff(tree)
    ELSE Extracted(<<>>, <<"git diff", "git status">>, tree, FALSE)

\* One call on every text of at most MaxLines lines, every tree, every fault.
ExtractInit ==
    /\ EmptyArchive
    /\ extract \in [pc : {"called"}, solution : Texts(MaxLines), tree : Trees,
                     fault : Faults, out : {Extracted(<<>>, <<>>, "clean", FALSE)}]
    /\ NoEvaluator
    /\ evaluation = NoEvaluation
    /\ NoUnitCall
    /\ loop = NoLoop

ExtractCall ==
    /\ extract.pc = "called"
    /\ extract' = [pc |-> "returned",
                   solution |-> extract.solution,
                   tree |-> extract.tree,
                   fault |-> extract.fault,
                   out |-> ExtractPatchFromSolution(extract.solution, extract.tree,
                                                    extract.fault)]
    /\ UNCHANGED <<archiveVars, evalVars, patchVars, unitVars, loopVars>>

ExtractNext == ExtractCall

ExtractSpec == ExtractInit /\ [][ExtractNext]_vars

----------------------------------------------------------------------------
\* SWEBenchLoader and SWEBenchEvaluator.evaluate_agent

\* list(dataset)[:max_instances]: n instances in the order loaded.
Loaded(n) == [i \in 1..n |-> [instance_id |-> i, test_patch |-> "tp"]]

\* (env of the call in progress before evaluate_patch is reached.)
NoEnv == [write_ok |-> TRUE, apply_ok |-> TRUE, test_apply_ok |-> TRUE,
          pytest |-> "exit 0"]

\* The state of a call of evaluate_agent before the first one.
\* (success: what load_swe_bench_verified returned to the constructor.)
NoRun(success) ==
    [pc |-> "idle", requested |-> 0, num_tasks |-> 0, i |-> 0, passed |-> 0,
     results |-> <<>>, solution |-> <<>>, tree |-> "clean", patch |-> <<>>,
     caught |-> {}, env |-> NoEnv, ret |-> Frac(0, 1), calls |-> 0,
     success |-> success]

\* __init__ taking the instances held by the loader whatever
\* load_swe_bench_verified returned.
EvaluatorInitIgnoringSuccess ==
    /\ \E success \in BOOLEAN, n \in 0..MaxInstances :
          /\ current_instances = Loaded(n)
          /\ ev = NoRun(success)
    /\ results_history = <<>>
    /\ sandboxes = {}

\* SWEBenchEvaluator.__init__: the instances of the loader when
\* load_swe_bench_verified succeeded, none when it failed (it catches the
\* exception of load_dataset and returns False).
EvaluatorInit ==
    /\ \E success \in BOOLEAN, n \in 0..MaxInstances :
          /\ current_instances = IF success THEN Loaded(n) ELSE <<>>
          /\ ev = NoRun(success)
    /\ results_history = <<>>
    /\ sandboxes = {}

\* The texts an agent answers with: prose alone, prose followed by a diff.
Solutions == {<<"text">>, <<"text", DiffHeader, "+x">>}

\* What the environment of evaluate_patch and run_tests does on one call:
\* whether writing agent_patch.patch succeeds, whether git apply accepts a
\* patch it can parse, whether it accepts the test patch, and how the pytest
\* process ends.
PytestEnds == {"exit 0", "exit 1", "timeout"}
Envs == [write_ok : BOOLEAN, apply_ok : BOOLEAN, test_apply_ok : BOOLEAN,
         pytest : PytestEnds]

\* The commands evaluate_patch and run_tests run in the sandbox.
ResetCmd == "git checkout HEAD -- ."
ApplyCmd == "git apply agent_patch.patch"
TestApplyCmd == "git apply test_patch.patch"
TestCmd == "python -m pytest -xvs"

\* run_tests reporting passed whatever the exit status of pytest.
RunTestsIgnoringExit(instance, env) ==
    IF instance.test_patch = ""
    THEN [passed |-> FALSE, reason |-> <<"No test patch available">>, cmds |-> <<>>]
    ELSE IF ~env.test_apply_ok
    THEN [passed |-> FALSE, reason |-> <<"Failed to apply test patch: ", "stderr">>,
          cmds |-> <<TestApplyCmd>>]
    ELSE [passed |-> TRUE, reason |-> <<"Tests completed">>,
          cmds |-> <<TestApplyCmd, TestCmd>>]

\* run_tests taking a test command cut off by the timeout for one that
\* completed with exit status 0.
RunTestsPassingOnTimeout(instance, env) ==
    IF instance.test_patch = ""
    THEN [passed |-> FALSE, reason |-> <<"No test patch available">>, cmds |-> <<>>]
    ELSE IF ~env.test_apply_ok
    THEN [passed |-> FALSE, reason |-> <<"Failed to apply test patch: ", "stderr">>,
          cmds |-> <<TestApplyCmd>>]
    ELSE [passed |-> env.pytest \in {"exit 0", "timeout"},
          reason |-> <<"Tests completed">>,
          cmds |-> <<TestApplyCmd, TestCmd>>]

\* run_tests going on to the test command when git apply rejected the
\* test patch.
RunTestsDespiteFailedTestPatch(instance, env) ==
    IF instance.test_patch = ""
    THEN [passed |-> FALSE, reason |-> <<"No test patch available">>, cmds |-> <<>>]
    ELSE IF env.pytest = "timeout"
    THEN [passed |-> FALSE, reason |-> <<"TimeoutExpired">>,
          cmds |-> <<TestApplyCmd, TestCmd>>]
    ELSE [passed |-> env.pytest = "exit 0", reason |-> <<"Tests completed">>,
          cmds |-> <<TestApplyCmd, TestCmd>>]

\* run_tests(repo_dir, instance), with the commands it ran.
RunTests(instance, env) ==
    IF instance.test_patch = ""
    THEN [passed |-> FALSE, reason |-> <<"No test patch available">>, cmds |-> <<>>]
    ELSE IF ~env.test_apply_ok
    THEN [passed |-> FALSE, reason |-> <<"Failed to apply test patch: ", "stderr">>,
          cmds |-> <<TestApplyCmd>>]
    ELSE IF env.pytest = "timeout"
    THEN [passed |-> FALSE, reason |-> <<"TimeoutExpired">>,
          cmds |-> <<TestApplyCmd, TestCmd>>]
    ELSE [passed |-> env.pytest = "exit 0", reason |-> <<"Tests completed">>,
          cmds |-> <<TestApplyCmd, TestCmd>>]

\* cd repo_dir && git apply agent_patch.patch exits 0: git apply rejects a
\* file in which it finds no diff (an empty file, prose), and may reject
\* one it can parse (a conflict, a corrupt hunk).
GitApply(patch, env) ==
    /\ \E i \in 1..Len(patch) : StartsWithDiffGit(patch[i])
    /\ env.apply_ok

\* evaluate_patch going on to run_tests whatever git apply answered.
EvaluatePatchIgnoringApply(patch, instance, env) ==
    IF ~env.write_ok
    THEN [success |-> FALSE, reason |-> <<"OSError">>, score |-> 0,
          cmds |-> <<ResetCmd>>]
    ELSE [success |-> RunTests(instance, env).passed,
          reason |-> RunTests(instance, env).reason,
          score |-> IF RunTests(instance, env).passed THEN 1 ELSE 0,
          cmds |-> <<ResetCmd, ApplyCmd>> \o RunTests(instance, env).cmds]

\* evaluate_patch(repo_dir, patch_content, instance), with the commands it
\* ran: the reset, the write of the patch file (an exception goes to the
\* except clause), git apply and its early return, run_tests.
EvaluatePatch(patch, instance, env) ==
    IF ~env.write_ok
    THEN [success |-> FALSE, reason |-> <<"OSError">>, score |-> 0,
          cmds |-> <<ResetCmd>>]
    ELSE IF ~GitApply(patch, env)
    THEN [success |-> FALSE, reason |-> <<"Patch failed to apply: ", "stderr">>,
          score |-> 0, cmds |-> <<ResetCmd, ApplyCmd>>]
    ELSE [success |-> RunTests(instance, env).passed,
          reason |-> RunTests(instance, env).reason,
          score |-> IF RunTests(instance, env).passed THEN 1 ELSE 0,
          cmds |-> <<ResetCmd, ApplyCmd>> \o RunTests(instance, env).cmds]

\* The patch texts evaluate_patch is given: empty, prose, six backticks, a
\* diff.
Patches == {<<>>, <<"text">>, <<SixBackticks>>, <<DiffHeader, "+x">>}

\* One call of evaluate_patch on every patch, on an instance with and
\* without a test patch, in every environment.
PatchInit ==
    /\ EmptyArchive
    /\ extract = NoExtract
    /\ NoEvaluator
    /\ evaluation \in [pc : {"called"}, patch : Patches,
                       instance : {[instance_id |-> 1, test_patch |-> tp] :
                                      tp \in {"", "tp"}},
                       env : Envs,
                       out : {[success |-> FALSE, reason |-> <<>>, score |-> 0,
                               cmds |-> <<>>]}]
    /\ NoUnitCall
    /\ loop = NoLoop

PatchCall ==
    /\ evaluation.pc = "called"
    /\ evaluation' = [evaluation EXCEPT
                         !.pc = "returned",
                         !.out = EvaluatePatch(evaluation.patch, evaluation.instance,
                                               evaluation.env)]
    /\ UNCHANGED <<archiveVars, extractVars, unitVars, evalVars, loopVars>>

PatchNext == PatchCall

PatchSpec == PatchInit /\ [][PatchNext]_vars

\* The tasks of the recorded runs, summed.
RECURSIVE TasksIn(_)
TasksIn(history) ==
    IF history = <<>> THEN 0
    ELSE history[1].num_tasks + TasksIn(Tail(history))

\* evaluate_agent(agent, num_tasks): the early return when no instances are
\* loaded, else num_tasks = min(num_tasks, len(current_instances)) and the
\* loop starts. (calls: the calls made so far.)
EvaluateAgent(num_tasks) ==
    /\ ev.pc = "idle"
    /\ ev.calls < MaxRuns
    /\ TasksIn(results_history) + Min(num_tasks, Len(current_instances)) <= MaxEvals
    /\ IF current_instances = <<>>
       THEN ev' = [ev EXCEPT !.requested = num_tasks, !.ret = Frac(0, 1),
                             !.calls = @ + 1]
       ELSE ev' = [pc |-> IF Min(num_tasks, Len(current_instances)) > 0
                          THEN "setup" ELSE "finish",
                   requested |-> num_tasks,
                   num_tasks |-> Min(num_tasks, Len(current_instances)),
                   i |-> 0, passed |-> 0, results |-> <<>>,
                   solution |-> <<>>, tree |-> "clean", patch |-> <<>>,
                   caught |-> {}, env |-> NoEnv, ret |-> ev.ret,
                   calls |-> ev.calls + 1, success |-> ev.success]
    /\ UNCHANGED <<current_instances, results_history, sandboxes>>
    /\ UNCHANGED <<archiveVars, extractVars, unitVars, patchVars, loopVars>>

\* instance = self.current_instances[i] (i counts from 0).
Instance == current_instances[ev.i + 1]

\* for i in range(num_tasks): the next pass, or the end of the loop.
NextTask(e) ==
    [e EXCEPT !.i = e.i + 1, !.env = NoEnv,
              !.pc = IF e.i + 1 < e.num_tasks THEN "setup" ELSE "finish"]

\* An exception that is not handled: it leaves evaluate_agent, the loop
\* stops and nothing is recorded.
Propagate(e, text) ==
    [e EXCEPT !.pc = "idle",
              !.caught = @ \cup {[instance_id |-> Instance.instance_id, text |-> text]}]

\* except Exception as e: the zero-score result, then the next instance.
\* (caught: the exceptions that reached this clause during the run.)
Except(e, text) ==
    NextTask([e EXCEPT
        !.caught = @ \cup {[instance_id |-> Instance.instance_id, text |-> text]},
        !.results =
            Append(@, [instance_id |-> Instance.instance_id, success |-> FALSE,
                       score |-> 0, reason |-> <<"Exception: ", text>>])])

\* swe_bench.setup_repository(instance): rmtree of an existing directory,
\* git clone (a failed clone leaves no directory and raises), git checkout.
SetupRepository(clone_ok) ==
    /\ ev.pc = "setup"
    /\ IF clone_ok
       THEN /\ sandboxes' = sandboxes \cup {Instance.instance_id}
            /\ ev' = [ev EXCEPT !.pc = "solve", !.tree = "clean",
                                !.solution = <<>>, !.patch = <<>>]
       ELSE /\ sandboxes' = sandboxes \ {Instance.instance_id}
            /\ ev' = Except(ev, "Failed to clone repository")
    /\ UNCHANGED <<current_instances, results_history>>
    /\ UNCHANGED <<archiveVars, extractVars, unitVars, patchVars, loopVars>>

\* solution = agent.solve_task(problem, repo_dir): the agent returns a text,
\* having edited the sandbox or not, or it raises.
SolveTask(raises, solution, tree) ==
    /\ ev.pc = "solve"
    /\ IF raises
       THEN ev' = Except(ev, "agent error")
       ELSE ev' = [ev EXCEPT !.pc = "extract", !.solution = solution, !.tree = tree]
    /\ UNCHANGED <<current_instances, results_history, sandboxes>>
    /\ UNCHANGED <<archiveVars, extractVars, unitVars, patchVars, loopVars>>

\* patch = self.extract_patch_from_solution(solution, repo_dir)
ExtractPatch(fault) ==
    /\ ev.pc = "extract"
    /\ ev' = [ev EXCEPT
                !.pc = "evaluate",
                !.patch = ExtractPatchFromSolution(ev.solution, ev.tree, fault).patch,
                !.tree = ExtractPatchFromSolution(ev.solution, ev.tree, fault).tree]
    /\ UNCHANGED <<current_instances, results_history, sandboxes>>
    /\ UNCHANGED <<archiveVars, extractVars, unitVars, patchVars, loopVars>>

\* passed += 1 after every returned evaluate_patch, successful or not.
RecordEvaluationCountingEveryResult(env) ==
    /\ ev.pc = "evaluate"
    /\ ev' = [ev EXCEPT
                !.pc = "cleanup",
                !.env = env,
                !.results = Append(@,
                    [instance_id |-> Instance.instance_id,
                     success |-> EvaluatePatch(ev.patch, Instance, env).success,
                     score |-> EvaluatePatch(ev.patch, Instance, env).score,
                     reason |-> EvaluatePatch(ev.patch, Instance, env).reason]),
                !.passed = @ + 1]
    /\ UNCHANGED <<current_instances, results_history, sandboxes>>
    /\ UNCHANGED <<archiveVars, extractVars, unitVars, patchVars, loopVars>>

\* evaluation = swe_bench.evaluate_patch(repo_dir, patch, instance); the
\* result is appended and passed counted. (env: the environment the call
\* met, kept until the loop leaves the instance.)
RecordEvaluation(env) ==
    /\ ev.pc = "evaluate"
    /\ ev' = [ev EXCEPT
                !.pc = "cleanup",
                !.env = env,
                !.results = Append(@,
                    [instance_id |-> Instance.instance_id,
                     success |-> EvaluatePatch(ev.patch, Instance, env).success,
                     score |-> EvaluatePatch(ev.patch, Instance, env).score,
                     reason |-> EvaluatePatch(ev.patch, Instance, env).reason]),
                !.passed = IF EvaluatePatch(ev.patch, Instance, env).success
                           THEN @ + 1 ELSE @]
    /\ UNCHANGED <<current_instances, results_history, sandboxes>>
    /\ UNCHANGED <<archiveVars, extractVars, unitVars, patchVars, loopVars>>

\* subprocess.run(cmd, shell=True, ...) without timeout= waits for the child
\* as long as the child runs: git clone and git checkout in
\* setup_repository, git diff, git status and git add in
\* extract_patch_from_solution once the text strategies found nothing,
\* git checkout and git apply in evaluate_patch and run_tests. A child
\* that never exits leaves the call waiting; only pytest has timeout=300.
SubprocessNeverReturns ==
    /\ \/ ev.pc = "setup"
       \/ ev.pc = "extract" /\ DiffMatches(ev.solution) = <<>>
                            /\ DiffLines(ev.solution) = <<>>
       \/ ev.pc = "evaluate"
    /\ ev' = [ev EXCEPT !.pc = "blocked"]
    /\ UNCHANGED <<current_instances, results_history, sandboxes>>
    /\ UNCHANGED <<archiveVars, extractVars, unitVars, patchVars, loopVars>>

\* # Cleanup: if Path(repo_dir).exists(): shutil.rmtree(repo_dir), the last
\* statement of the try block; rmtree may raise.
Cleanup(rmtree_ok) ==
    /\ ev.pc = "cleanup"
    /\ IF Instance.instance_id \notin sandboxes
       THEN /\ ev' = NextTask(ev)
            /\ UNCHANGED sandboxes
       ELSE IF rmtree_ok
            THEN /\ sandboxes' = sandboxes \ {Instance.instance_id}
                 /\ ev' = NextTask(ev)
            ELSE /\ ev' = Except(ev, "rmtree error")
                 /\ UNCHANGED sandboxes
    /\ UNCHANGED <<current_instances, results_history>>
    /\ UNCHANGED <<archiveVars, extractVars, unitVars, patchVars, loopVars>>

\* score = passed / num_tasks if num_tasks > 0 else 0.0; the run is
\* appended to results_history; return score.
Finish ==
    /\ ev.pc = "finish"
    /\ results_history' = Append(results_history,
          [num_tasks |-> ev.num_tasks, passed |-> ev.passed,
           score |-> IF ev.num_tasks > 0 THEN Frac(ev.passed, ev.num_tasks)
                     ELSE Frac(0, 1),
           results |-> ev.results])
    /\ ev' = [ev EXCEPT !.pc = "idle",
                        !.ret = IF ev.num_tasks > 0 THEN Frac(ev.passed, ev.num_tasks)
                                ELSE Frac(0, 1)]
    /\ UNCHANGED <<current_instances, sandboxes>>
    /\ UNCHANGED <<archiveVars, extractVars, unitVars, patchVars, loopVars>>

Init ==
    /\ EmptyArchive
    /\ extract = NoExtract
    /\ EvaluatorInit
    /\ evaluation = NoEvaluation
    /\ NoUnitCall
    /\ loop = NoLoop

Next ==
    \/ \E num_tasks \in 0..(MaxInstances + 1) : EvaluateAgent(num_tasks)
    \/ \E clone_ok \in BOOLEAN : SetupRepository(clone_ok)
    \/ \E raises \in BOOLEAN, solution \in Solutions, tree \in {"clean", "modified"} :
          SolveTask(raises, solution, tree)
    \/ \E fault \in Faults : ExtractPatch(fault)
    \/ \E env \in Envs : RecordEvaluation(env)
    \/ SubprocessNeverReturns
    \/ \E rmtree_ok \in BOOLEAN : Cleanup(rmtree_ok)
    \/ Finish

Spec == Init /\ [][Next]_vars

----------------------------------------------------------------------------
\* InfiniteSelfImprovingFramework (src/simple-dgm/main.py)

\* Iterations of the while loop the model follows, SIGINTs delivered.
MaxIterations == 2
MaxSignals == 2

\* evaluate_agent(current_agent, num_tasks=10), evaluate_agent(new_agent,
\* num_tasks=15), the iterations between two intermediate exports, the two
\* pauses in seconds.
BaselineTasks == 10
IterationTasks == 15
ExportEvery == 5
ShortSleep == 10
LongSleep == 30

\* a > b for two quotients (the denominators are positive).
Greater(a, b) == a.num * b.den > b.num * a.den

\* The run evaluate_agent records when passed of its num_tasks instances
\* succeed (the instances that pass are taken to be the first ones loaded).
RunOf(num_tasks, passed) ==
    [num_tasks |-> num_tasks, passed |-> passed,
     score |-> IF num_tasks > 0 THEN Frac(passed, num_tasks) ELSE Frac(0, 1),
     results |-> [i \in 1..num_tasks |->
                    [instance_id |-> current_instances[i].instance_id,
                     success |-> i <= passed,
                     score |-> IF i <= passed THEN 1 ELSE 0,
                     reason |-> IF i <= passed THEN <<"Tests completed">>
                                ELSE <<"Patch failed to apply: ", "stderr">>]]]

\* self.evaluator.evaluate_agent(agent, num_tasks) as the loop sees it: the
\* history after the call and the score returned.
HistoryAfter(num_tasks, passed) ==
    IF current_instances = <<>> THEN results_history
    ELSE Append(results_history,
                RunOf(Min(num_tasks, Len(current_instances)), passed))

ScoreAfter(num_tasks, passed) ==
    IF current_instances = <<>> THEN Frac(0, 1)
    ELSE RunOf(Min(num_tasks, Len(current_instances)), passed).score

\* __init__ and the start of run_infinite_improvement, up to the initial
\* evaluation: the SIGINT handler is installed, the first agent is agent 0.
\* (signals, handled_at, errors, crashed_at, failed_iteration record what
\* happened to the process: the SIGINTs delivered, the steps they arrived
\* in, the exceptions the loop's except clause took, the step an uncaught
\* exception left from, the value of self.iteration the except clause
\* printed when the last pass ended in it, 0 when it did not.)
LoopInit ==
    /\ EmptyArchive
    /\ extract = NoExtract
    /\ evaluation = NoEvaluation
    /\ NoUnitCall
    /\ \E n \in 0..MaxInstances : current_instances = Loaded(n)
    /\ results_history = <<>>
    /\ sandboxes = {}
    /\ ev = [pc |-> "off"]
    /\ loop = [pc |-> "initial_evaluation", running |-> TRUE, iteration |-> 0,
               best_score |-> Frac(0, 1), improvement_log |-> <<>>,
               current_agent |-> 0, new_score |-> Frac(0, 1), initial_id |-> NoParent,
               is_improvement |-> FALSE, sleep |-> 0, exports |-> <<>>,
               signals |-> 0, handled_at |-> <<>>, errors |-> 0,
               crashed_at |-> "none", failed_iteration |-> 0]

\* The steps of one pass of the while loop, all inside its try block.
IterationSteps ==
    {"self_modify", "evaluate", "save_agent", "update_best", "show_progress_summary"}

\* The steps in which the process is running.
Alive == {"initial_evaluation", "save_initial", "while", "sleep"} \cup IterationSteps

\* log_improvement(iteration, score, description)
LogImprovement(log, iteration, score, description) ==
    Append(log, [iteration |-> iteration, score |-> score, description |-> description])

\* An exception nothing catches: the traceback, and the process ends.
Uncaught(l) == [l EXCEPT !.pc = "crashed", !.crashed_at = l.pc]

\* An exception raised inside the try block leaving the loop uncaught.
NotCaught(l) == Uncaught(l)

\* except Exception as e: the error is printed and time.sleep(30) follows.
Caught(l) ==
    [l EXCEPT !.pc = "sleep", !.sleep = LongSleep, !.errors = @ + 1,
              !.failed_iteration = l.iteration]

\* The archive after save_agent(score=score, parent_id=parent_id) returned.
SaveAgent(score, parent_id) ==
    /\ agents' = agents \cup {AgentRow(agent_seq + 1, score, now, parent_id, TRUE)}
    /\ performance_history' =
          performance_history \cup {PerfRow(perf_seq + 1, agent_seq + 1, score)}
    /\ agent_seq' = agent_seq + 1
    /\ perf_seq' = perf_seq + 1
    /\ UNCHANGED <<now, conn, call>>

\* initial_score = self.evaluator.evaluate_agent(current_agent, num_tasks=10)
InitialEvaluation(passed) ==
    /\ loop.pc = "initial_evaluation"
    /\ passed <= Min(BaselineTasks, Len(current_instances))
    /\ results_history' = HistoryAfter(BaselineTasks, passed)
    /\ loop' = [loop EXCEPT !.pc = "save_initial",
                            !.new_score = ScoreAfter(BaselineTasks, passed)]
    /\ UNCHANGED <<archiveVars, extractVars, unitVars, patchVars, current_instances, sandboxes, ev>>

\* initial_id = self.archive.save_agent(...); self.best_score = initial_score;
\* self.log_improvement(0, initial_score, "Initial baseline"). An exception of
\* save_agent is outside any try block.
SaveInitial(ok) ==
    /\ loop.pc = "save_initial"
    /\ IF ok
       THEN /\ SaveAgent(loop.new_score, NoParent)
            /\ loop' = [loop EXCEPT
                  !.pc = "while",
                  !.initial_id = agent_seq + 1,
                  !.best_score = loop.new_score,
                  !.improvement_log =
                      LogImprovement(@, 0, loop.new_score, "Initial baseline")]
       ELSE /\ loop' = Uncaught(loop)
            /\ UNCHANGED archiveVars
    /\ UNCHANGED <<extractVars, unitVars, patchVars, evalVars>>

\* while self.running: ... self.iteration += 1; the loop ends, and
\* run_infinite_improvement returns, when running is False.
\* The while loop starting the pass after a failed one without
\* self.iteration += 1.
WhileUpToRetrying(max) ==
    /\ loop.pc = "while"
    /\ loop.running => loop.iteration < max
    /\ loop' = IF loop.running
               THEN [loop EXCEPT !.pc = "self_modify",
                                 !.iteration = IF loop.failed_iteration # 0
                                               THEN @ ELSE @ + 1]
               ELSE [loop EXCEPT !.pc = "returned"]
    /\ UNCHANGED <<archiveVars, extractVars, unitVars, patchVars, evalVars>>

\* (max: the iterations the model follows.)
WhileUpTo(max) ==
    /\ loop.pc = "while"
    /\ loop.running => loop.iteration < max
    /\ loop' = IF loop.running
               THEN [loop EXCEPT !.pc = "self_modify", !.iteration = @ + 1]
               ELSE [loop EXCEPT !.pc = "returned"]
    /\ UNCHANGED <<archiveVars, extractVars, unitVars, patchVars, evalVars>>

While == WhileUpTo(MaxIterations)

\* failure_logs = self.generate_failure_analysis();
\* improvement = current_agent.self_modify(failure_logs, self.best_score);
\* new_agent = SimpleAgent("./workspace")
SelfModify(raises) ==
    /\ loop.pc = "self_modify"
    /\ loop' = IF raises THEN Caught(loop) ELSE [loop EXCEPT !.pc = "evaluate"]
    /\ UNCHANGED <<archiveVars, extractVars, unitVars, patchVars, evalVars>>

\* new_score = self.evaluator.evaluate_agent(new_agent, num_tasks=15)
EvaluateCandidate(raises, passed) ==
    /\ loop.pc = "evaluate"
    /\ passed <= Min(IterationTasks, Len(current_instances))
    /\ IF raises
       THEN /\ loop' = Caught(loop)
            /\ UNCHANGED results_history
       ELSE /\ results_history' = HistoryAfter(IterationTasks, passed)
            /\ loop' = [loop EXCEPT !.pc = "save_agent",
                                    !.new_score = ScoreAfter(IterationTasks, passed)]
    /\ UNCHANGED <<archiveVars, extractVars, unitVars, patchVars, current_instances, sandboxes, ev>>

\* new_score >= self.best_score in place of the strict comparison.
IsImprovementOrEqual(new_score, best_score) == ~Greater(best_score, new_score)

\* is_improvement = new_score > self.best_score
IsImprovement(new_score, best_score) == Greater(new_score, best_score)

\* save_agent called with the id of the agent saved last as parent_id.
SaveCandidateUnderLatest(ok) ==
    /\ loop.pc = "save_agent"
    /\ IF ok
       THEN /\ SaveAgent(loop.new_score, agent_seq)
            /\ loop' = [loop EXCEPT
                  !.pc = "update_best",
                  !.is_improvement = IsImprovement(loop.new_score, loop.best_score)]
       ELSE /\ loop' = Caught(loop)
            /\ UNCHANGED archiveVars
    /\ UNCHANGED <<extractVars, unitVars, patchVars, evalVars>>

\* is_improvement = ...; agent_id = self.archive.save_agent(...,
\* parent_id=initial_id, ...)
SaveCandidate(ok) ==
    /\ loop.pc = "save_agent"
    /\ IF ok
       THEN /\ SaveAgent(loop.new_score, loop.initial_id)
            /\ loop' = [loop EXCEPT
                  !.pc = "update_best",
                  !.is_improvement = IsImprovement(loop.new_score, loop.best_score)]
       ELSE /\ loop' = Caught(loop)
            /\ UNCHANGED archiveVars
    /\ UNCHANGED <<extractVars, unitVars, patchVars, evalVars>>

\* if is_improvement: self.best_score = new_score; current_agent = new_agent;
\* log "Performance improvement"; else: log "Exploration attempt".
\* (The agent made in iteration n is agent n.)
UpdateBest ==
    /\ loop.pc = "update_best"
    /\ loop' = IF loop.is_improvement
               THEN [loop EXCEPT
                       !.pc = "show_progress_summary",
                       !.best_score = loop.new_score,
                       !.current_agent = loop.iteration,
                       !.improvement_log =
                           LogImprovement(@, loop.iteration, loop.new_score,
                                          "Performance improvement")]
               ELSE [loop EXCEPT
                       !.pc = "show_progress_summary",
                       !.improvement_log =
                           LogImprovement(@, loop.iteration, loop.new_score,
                                          "Exploration attempt")]
    /\ UNCHANGED <<archiveVars, extractVars, unitVars, patchVars, evalVars>>

\* What export_intermediate_results and export_final_results write.
Export(kind) ==
    [kind |-> kind, iteration |-> loop.iteration, best_score |-> loop.best_score,
     improvement_log |-> loop.improvement_log,
     evaluations |-> Len(results_history),
     total_agents |-> Cardinality(agents)]

\* self.show_progress_summary(): with fewer than two log entries it returns;
\* otherwise recent_scores[-1] > recent_scores compares a float with a list
\* and raises TypeError. After it: the intermediate export every 5
\* iterations and time.sleep(10).
ShowProgressSummary ==
    /\ loop.pc = "show_progress_summary"
    /\ loop' = IF Len(loop.improvement_log) < 2
               THEN [loop EXCEPT
                       !.pc = "sleep", !.sleep = ShortSleep,
                       !.failed_iteration = 0,
                       !.exports = IF loop.iteration % ExportEvery = 0
                                   THEN Append(@, Export("intermediate")) ELSE @]
               ELSE Caught(loop)
    /\ UNCHANGED <<archiveVars, extractVars, unitVars, patchVars, evalVars>>

\* time.sleep(10) or time.sleep(30) returns; continue.
Sleep ==
    /\ loop.pc = "sleep"
    /\ loop' = [loop EXCEPT !.pc = "while", !.sleep = 0]
    /\ UNCHANGED <<archiveVars, extractVars, unitVars, patchVars, evalVars>>

\* export_final_results(): "start_time" indexes the improvement log, a list,
\* with a string, which raises TypeError unless the log is empty; only then
\* is the file written.
FinalExportRaises(l) == l.improvement_log # <<>>

\* An exception raised by the handler, in the main thread, at the step the
\* signal arrived in: an except Exception clause of the callee takes it
\* (the per-instance clause of evaluate_agent, the clause of
\* _call_lm_studio), or the loop's clause does, or nothing does (outside
\* the try block, and in the except clause during time.sleep(30)).
HandlerRaised(l, swallowed) ==
    IF swallowed /\ l.pc \in {"initial_evaluation", "self_modify", "evaluate"}
    THEN l
    ELSE IF l.pc \in IterationSteps \/ (l.pc = "sleep" /\ l.sleep = ShortSleep)
    THEN Caught(l)
    ELSE Uncaught(l)

\* shutdown_handler without self.running = False.
ShutdownHandlerKeepingRunning(swallowed) ==
    /\ loop.pc \in Alive
    /\ loop.signals < MaxSignals
    /\ loop' =
         IF FinalExportRaises(loop)
         THEN HandlerRaised([loop EXCEPT !.signals = @ + 1,
                                         !.handled_at = Append(@, loop.pc)],
                            swallowed)
         ELSE [loop EXCEPT !.signals = @ + 1,
                           !.handled_at = Append(@, loop.pc),
                           !.exports = Append(@, Export("final")),
                           !.pc = "exited"]
    /\ UNCHANGED <<archiveVars, extractVars, unitVars, patchVars, evalVars>>

\* SIGINT: Python runs shutdown_handler in the main thread at once, inside
\* whatever step is executing: running = False, export_final_results(),
\* sys.exit(0). SystemExit is not an Exception: no except clause takes it.
ShutdownHandler(swallowed) ==
    /\ loop.pc \in Alive
    /\ loop.signals < MaxSignals
    /\ loop' =
         IF FinalExportRaises(loop)
         THEN HandlerRaised([loop EXCEPT !.running = FALSE, !.signals = @ + 1,
                                         !.handled_at = Append(@, loop.pc)],
                            swallowed)
         ELSE [loop EXCEPT !.running = FALSE, !.signals = @ + 1,
                           !.handled_at = Append(@, loop.pc),
                           !.exports = Append(@, Export("final")),
                           !.pc = "exited"]
    /\ UNCHANGED <<archiveVars, extractVars, unitVars, patchVars, evalVars>>

LoopNext ==
    \/ \E passed \in 0..MaxInstances : InitialEvaluation(passed)
    \/ \E ok \in BOOLEAN : SaveInitial(ok)
    \/ While
    \/ \E raises \in BOOLEAN : SelfModify(raises)
    \/ \E raises \in BOOLEAN, passed \in 0..MaxInstances :
          EvaluateCandidate(raises, passed)
    \/ \E ok \in BOOLEAN : SaveCandidate(ok)
    \/ UpdateBest
    \/ ShowProgressSummary
    \/ Sleep
    \/ \E swallowed \in BOOLEAN : ShutdownHandler(swallowed)

\* The process keeps executing: time.sleep returns and the while test runs.
LoopSpec == LoopInit /\ [][LoopNext]_vars /\ WF_vars(Sleep) /\ WF_vars(While)

\* Iterations followed in a run without SIGINT in which self_modify,
\* evaluate_agent and save_agent never raise: enough to reach the first
\* iteration whose number is a multiple of 5.
MaxQuietIterations == 5

WhileQuiet == WhileUpTo(MaxQuietIterations)

QuietNext ==
    \/ \E passed \in 0..MaxInstances : InitialEvaluation(passed)
    \/ SaveInitial(TRUE)
    \/ WhileQuiet
    \/ SelfModify(FALSE)
    \/ \E passed \in 0..MaxInstances : EvaluateCandidate(FALSE, passed)
    \/ SaveCandidate(TRUE)
    \/ UpdateBest
    \/ ShowProgressSummary
    \/ Sleep

QuietSpec == LoopInit /\ [][QuietNext]_vars /\ WF_vars(Sleep) /\ WF_vars(WhileQuiet)

----------------------------------------------------------------------------
\* SWEBenchEvaluator.get_improvement_metrics (src/simple-dgm/evaluator.py)

\* Recorded runs in the history of the call the model follows.
MaxHistory == 10

\* results_history[-5:] and results_history[-10:-5]; the history has to hold
\* 10 runs before the second slice is taken.
RecentRuns == 5
EarlierRuns == 10

\* improvement > 0.01, improvement < -0.01
TrendThreshold == Frac(1, 100)

\* s[-n:] for n > 0 and s[-m:-n] for m > n > 0 (Python slices).
Last(s, n) == SubSeq(s, IF Len(s) > n THEN Len(s) - n + 1 ELSE 1, Len(s))
Slice(s, m, n) == SubSeq(s, IF Len(s) > m THEN Len(s) - m + 1 ELSE 1, Len(s) - n)

\* sum(scores) / len(scores) for a non-empty list of fractions.
RECURSIVE SumOf(_)
SumOf(scores) ==
    IF scores = <<>> THEN Frac(0, 1)
    ELSE Frac(scores[1].num * SumOf(Tail(scores)).den
                + SumOf(Tail(scores)).num * scores[1].den,
              scores[1].den * SumOf(Tail(scores)).den)

Avg(scores) == Frac(SumOf(scores).num, SumOf(scores).den * Len(scores))

\* a - b and -a
Minus(a, b) == Frac(a.num * b.den - b.num * a.den, a.den * b.den)
Neg(a) == Frac(0 - a.num, a.den)

\* "improving" if improvement > 0.01 else "declining" if improvement < -0.01
\* else "stable"
Trend(improvement) ==
    IF Greater(improvement, TrendThreshold) THEN "improving"
    ELSE IF Greater(Neg(TrendThreshold), improvement) THEN "declining"
    ELSE "stable"

ScoresOf(history) == [i \in 1..Len(history) |-> history[i].score]

\* earlier_scores = [r["score"] for r in results_history[-10:-5]]
\*     if len(results_history) >= 10 else [results_history[-1]["score"]]
EarlierScores(history) ==
    IF Len(history) >= EarlierRuns
    THEN ScoresOf(Slice(history, EarlierRuns, RecentRuns))
    ELSE <<history[Len(history)].score>>

\* get_improvement_metrics() on a history.
GetImprovementMetrics(history) ==
    IF Len(history) < 2
    THEN [trend |-> "insufficient_data", improvement |-> Frac(0, 1),
          recent_avg |-> Frac(0, 1), earlier_avg |-> Frac(0, 1),
          total_evaluations |-> Len(history)]
    ELSE [trend |-> Trend(Minus(Avg(ScoresOf(Last(history, RecentRuns))),
                                Avg(EarlierScores(history)))),
          improvement |-> Minus(Avg(ScoresOf(Last(history, RecentRuns))),
                                Avg(EarlierScores(history))),
          recent_avg |-> Avg(ScoresOf(Last(history, RecentRuns))),
          earlier_avg |-> Avg(EarlierScores(history)),
          total_evaluations |-> Len(history)]

\* An evaluator with one instance loaded that has recorded up to MaxHistory
\* runs of one task, each passed or failed, and is asked for its metrics.
MetricsInit ==
    /\ EmptyArchive
    /\ extract = NoExtract
    /\ current_instances = Loaded(1)
    /\ \E n \in 0..MaxHistory :
          \E passed \in [1..n -> 0..1] :
             results_history = [k \in 1..n |-> RunOf(1, passed[k])]
    /\ sandboxes = {}
    /\ ev = [pc |-> "off"]
    /\ evaluation = NoEvaluation
    /\ metrics = [pc |-> "called"]
    /\ setup = [pc |-> "off"]
    /\ runs = [pc |-> "off"]
    /\ framework = [pc |-> "off"]
    /\ loop = NoLoop

MetricsCall ==
    /\ metrics.pc = "called"
    /\ metrics' = [pc |-> "returned", out |-> GetImprovementMetrics(results_history)]
    /\ UNCHANGED <<archiveVars, extractVars, evalVars, patchVars, setup, runs, framework, loopVars>>

MetricsNext == MetricsCall

MetricsSpec == MetricsInit /\ [][MetricsNext]_vars

----------------------------------------------------------------------------
\* SWEBenchLoader.setup_repository (src/simple-dgm/swe_bench_loader.py) and
\* the statements of evaluate_agent around its call.

\* repos/<instance_id> on disk: absent, or a working copy. (fresh: cloned by
\* the call the model follows; commit: what is checked out; modified:
\* it holds edits or patch files added after the clone.)
NoDir == [exists |-> FALSE, fresh |-> FALSE, commit |-> "none", modified |-> FALSE]
Dir(fresh, commit, modified) ==
    [exists |-> TRUE, fresh |-> fresh, commit |-> commit, modified |-> modified]

\* What earlier evaluations may have left: nothing, or a working copy at the
\* base commit or on the default branch, edited or not.
LeftBehind == {NoDir} \cup {Dir(FALSE, c, m) : c \in {"base_commit", "default"},
                                               m \in BOOLEAN}

\* What the environment does on one call: whether shutil.rmtree succeeds,
\* whether git clone and git checkout exit 0.
SetupEnvs == [rmtree_ok : BOOLEAN, clone_ok : BOOLEAN, checkout_ok : BOOLEAN]

\* The outcome of one call: the exception raised (<<>> when it returned),
\* the path returned (the instance id names it, 0 when it raised), the disk.
SetupOutcome(raised, path, disk) == [raised |-> raised, path |-> path, disk |-> disk]

\* setup_repository without the rmtree of an existing directory: git clone
\* refuses a destination that exists and is not empty.
RepositorySetupKeepingDirectory(instance, disk, env) ==
    IF disk[instance.instance_id].exists \/ ~env.clone_ok
    THEN SetupOutcome(<<"Failed to clone repository: ", "stderr">>, 0, disk)
    ELSE SetupOutcome(<<>>, instance.instance_id,
            [disk EXCEPT ![instance.instance_id] =
                Dir(TRUE, IF env.checkout_ok THEN "base_commit" ELSE "default", FALSE)])

\* setup_repository raising when git checkout exits nonzero.
RepositorySetupRaisingOnCheckout(instance, disk, env) ==
    IF disk[instance.instance_id].exists /\ ~env.rmtree_ok
    THEN SetupOutcome(<<"rmtree error">>, 0, disk)
    ELSE IF ~env.clone_ok
    THEN SetupOutcome(<<"Failed to clone repository: ", "stderr">>, 0,
                      [disk EXCEPT ![instance.instance_id] = NoDir])
    ELSE IF ~env.checkout_ok
    THEN SetupOutcome(<<"Could not checkout base commit: ", "stderr">>, 0,
                      [disk EXCEPT ![instance.instance_id] = Dir(TRUE, "default", FALSE)])
    ELSE SetupOutcome(<<>>, instance.instance_id,
            [disk EXCEPT ![instance.instance_id] = Dir(TRUE, "base_commit", FALSE)])

\* setup_repository(instance): rmtree of repos/<instance_id> when it exists
\* (an exception of rmtree leaves the call), git clone (a nonzero exit
\* raises; git removes the directory it had created), git checkout
\* <base_commit> (a nonzero exit prints a warning), return str(repo_dir).
RepositorySetup(instance, disk, env) ==
    IF disk[instance.instance_id].exists /\ ~env.rmtree_ok
    THEN SetupOutcome(<<"rmtree error">>, 0, disk)
    ELSE IF ~env.clone_ok
    THEN SetupOutcome(<<"Failed to clone repository: ", "stderr">>, 0,
                      [disk EXCEPT ![instance.instance_id] = NoDir])
    ELSE SetupOutcome(<<>>, instance.instance_id,
            [disk EXCEPT ![instance.instance_id] =
                Dir(TRUE, IF env.checkout_ok THEN "base_commit" ELSE "default", FALSE)])

\* evaluate_agent reaches setup_repository for one of the loaded instances,
\* on every disk earlier evaluations may have left, in every environment.
SetupInit ==
    /\ EmptyArchive
    /\ extract = NoExtract
    /\ current_instances = Loaded(MaxInstances)
    /\ results_history = <<>>
    /\ sandboxes = {}
    /\ ev = [pc |-> "off"]
    /\ evaluation = NoEvaluation
    /\ metrics = [pc |-> "off"]
    /\ runs = [pc |-> "off"]
    /\ framework = [pc |-> "off"]
    /\ \E i \in 1..MaxInstances, disk \in [1..MaxInstances -> LeftBehind],
          env \in SetupEnvs :
             setup = [pc |-> "called", i |-> i, disk |-> disk, before |-> disk,
                      env |-> env, out |-> SetupOutcome(<<>>, 0, disk),
                      results |-> <<>>, repo_dir |-> 0]
    /\ loop = NoLoop

\* repo_dir = swe_bench.setup_repository(instance)
\* (before: the disk as the call found it.)
SetupCall ==
    /\ setup.pc = "called"
    /\ setup' = [setup EXCEPT
                   !.pc = "returned",
                   !.out = RepositorySetup(current_instances[setup.i], setup.disk,
                                           setup.env),
                   !.disk = RepositorySetup(current_instances[setup.i], setup.disk,
                                            setup.env).disk]
    /\ UNCHANGED <<archiveVars, extractVars, evalVars, patchVars, metrics, runs, framework, loopVars>>

\* The try block after the call: solve_task(problem, repo_dir) on the path
\* returned, or the except clause with its zero-score result.
SetupTryGoesOn ==
    /\ setup.pc = "returned"
    /\ IF setup.out.raised = <<>>
       THEN setup' = [setup EXCEPT !.pc = "solve_task", !.repo_dir = setup.out.path]
       ELSE setup' = [setup EXCEPT
                        !.pc = "except",
                        !.results = Append(@,
                            [instance_id |-> current_instances[setup.i].instance_id,
                             success |-> FALSE, score |-> 0,
                             reason |-> <<"Exception: ">> \o setup.out.raised])]
    /\ UNCHANGED <<archiveVars, extractVars, evalVars, patchVars, metrics, runs, framework, loopVars>>

SetupNext ==
    \/ SetupCall
    \/ SetupTryGoesOn

SetupSpec == SetupInit /\ [][SetupNext]_vars

----------------------------------------------------------------------------
\* One pass of the try block of evaluate_agent (src/simple-dgm/evaluator.py
\* lines 49-88), followed for the same instance in two runs that differ in
\* the instance's test_patch only.

\* The content of repos/<instance_id>: the commit cloned ("none": no
\* directory), whether tracked files carry the agent's edits, the file
\* agent_patch.patch, the file test_patch.patch ("": not there).
NoFiles == [repo |-> "none", edits |-> FALSE, has_agent_patch |-> FALSE,
            agent_patch |-> <<>>, test_patch |-> ""]

\* What an earlier evaluation of the instance that did not reach the
\* cleanup leaves in the directory.
FilesLeft(instance) ==
    [repo |-> "base_commit", edits |-> TRUE, has_agent_patch |-> TRUE,
     agent_patch |-> <<DiffHeader, "+x">>, test_patch |-> instance.test_patch]

\* The test patches an instance may carry.
TestPatches == {"", "tp1", "tp2"}

\* instance = self.current_instances[i]; problem = instance['problem_statement']
InstanceWith(test_patch) ==
    [instance_id |-> 1, problem_statement |-> "issue", test_patch |-> test_patch]

\* setup_repository writing the instance's test patch into the new copy.
SandboxWithTestPatch(instance, files) ==
    [NoFiles EXCEPT !.repo = "base_commit", !.test_patch = instance.test_patch]

\* The directory after setup_repository(instance) returned: what was there
\* is removed and the repository cloned.
SandboxAfterSetup(instance, files) == [NoFiles EXCEPT !.repo = "base_commit"]

\* agent.solve_task(problem, repo_dir): what the agent is handed, the text
\* of the problem and the directory it may read.
SolveInputs(instance, files) ==
    [problem |-> instance.problem_statement, repo |-> files]

\* One run before setup_repository is called.
RunStart(test_patch, left) ==
    [instance |-> InstanceWith(test_patch),
     files |-> IF left THEN FilesLeft(InstanceWith(test_patch)) ELSE NoFiles,
     given |-> [problem |-> "", repo |-> NoFiles],
     solution |-> <<>>, patch |-> <<>>, success |-> FALSE]

\* repo_dir = swe_bench.setup_repository(instance)
RunSetup(r) == [r EXCEPT !.files = SandboxAfterSetup(r.instance, r.files)]

\* solution = agent.solve_task(problem, repo_dir)
RunSolve(r, solution, edits) ==
    [r EXCEPT !.given = SolveInputs(r.instance, r.files),
              !.solution = solution,
              !.files = [@ EXCEPT !.edits = edits]]

\* patch = self.extract_patch_from_solution(solution, repo_dir)
RunExtract(r, fault) ==
    [r EXCEPT !.patch =
        ExtractPatchFromSolution(r.solution,
                                 IF r.files.edits THEN "modified" ELSE "clean",
                                 fault).patch]

\* evaluation = swe_bench.evaluate_patch(repo_dir, patch, instance): the
\* reset undoes the edits of tracked files, agent_patch.patch is written,
\* and run_tests, when it is reached with a test patch, writes
\* test_patch.patch.
RunEvaluate(r, env) ==
    [r EXCEPT
       !.files = [@ EXCEPT
                    !.edits = FALSE,
                    !.has_agent_patch = @ \/ env.write_ok,
                    !.agent_patch = IF env.write_ok THEN r.patch ELSE @,
                    !.test_patch = IF env.write_ok /\ GitApply(r.patch, env)
                                   THEN r.instance.test_patch ELSE @],
       !.success = EvaluatePatch(r.patch, r.instance, env).success]

\* if Path(repo_dir).exists(): shutil.rmtree(repo_dir)
RunCleanup(r) == [r EXCEPT !.files = NoFiles]

\* Two runs on the same instance, the same disk and the same agent, each
\* with its own test patch. (left: an earlier evaluation left its
\* directory, holding the test patch of its run.)
TwoRunsInit ==
    /\ EmptyArchive
    /\ extract = NoExtract
    /\ NoEvaluator
    /\ evaluation = NoEvaluation
    /\ metrics = [pc |-> "off"]
    /\ setup = [pc |-> "off"]
    /\ framework = [pc |-> "off"]
    /\ \E tp_a \in TestPatches, tp_b \in TestPatches, left \in BOOLEAN :
          runs = [pc |-> "setup", left |-> left,
                  a |-> RunStart(tp_a, left), b |-> RunStart(tp_b, left)]
    /\ loop = NoLoop

\* The statements of the try block, executed by both runs: the agent
\* answers both with the same text and edits, the environment treats both
\* alike.
TwoRunsSetup ==
    /\ runs.pc = "setup"
    /\ runs' = [runs EXCEPT !.pc = "solve", !.a = RunSetup(@), !.b = RunSetup(@)]
    /\ UNCHANGED <<archiveVars, extractVars, evalVars, patchVars, metrics, setup, framework, loopVars>>

TwoRunsSolve(solution, edits) ==
    /\ runs.pc = "solve"
    /\ runs' = [runs EXCEPT !.pc = "extract",
                            !.a = RunSolve(@, solution, edits),
                            !.b = RunSolve(@, solution, edits)]
    /\ UNCHANGED <<archiveVars, extractVars, evalVars, patchVars, metrics, setup, framework, loopVars>>

TwoRunsExtract(fault) ==
    /\ runs.pc = "extract"
    /\ runs' = [runs EXCEPT !.pc = "evaluate",
                            !.a = RunExtract(@, fault),
                            !.b = RunExtract(@, fault)]
    /\ UNCHANGED <<archiveVars, extractVars, evalVars, patchVars, metrics, setup, framework, loopVars>>

TwoRunsEvaluate(env) ==
    /\ runs.pc = "evaluate"
    /\ runs' = [runs EXCEPT !.pc = "cleanup",
                            !.a = RunEvaluate(@, env),
                            !.b = RunEvaluate(@, env)]
    /\ UNCHANGED <<archiveVars, extractVars, evalVars, patchVars, metrics, setup, framework, loopVars>>

TwoRunsCleanup ==
    /\ runs.pc = "cleanup"
    /\ runs' = [runs EXCEPT !.pc = "done",
                            !.a = RunCleanup(@),
                            !.b = RunCleanup(@)]
    /\ UNCHANGED <<archiveVars, extractVars, evalVars, patchVars, metrics, setup, framework, loopVars>>

TwoRunsNext ==
    \/ TwoRunsSetup
    \/ \E solution \in Solutions, edits \in BOOLEAN : TwoRunsSolve(solution, edits)
    \/ \E fault \in Faults : TwoRunsExtract(fault)
    \/ \E env \in Envs : TwoRunsEvaluate(env)
    \/ TwoRunsCleanup

TwoRunsSpec == TwoRunsInit /\ [][TwoRunsNext]_vars

----------------------------------------------------------------------------
\* SelfImprovingFramework.run_evolution_loop (src/main.py). Scores are in
\* tenths: evaluate_agent adds 0.3, 0.4 and 0.3.

\* while self.iteration_count < 10
EvolutionPasses == 10

\* Passes the model follows (the loop itself stops at EvolutionPasses).
MaxPasses == 12

\* evaluate_agent: 0.3 for "def ", 0.4 for "tool_call", 0.3 for "factorial"
\* in the content, min(score, 1.0); 0.0 when solve_task or the reading of
\* its result raised.
EvaluateAgentScore(has_def, has_tool_call, has_factorial) ==
    Min((IF has_def THEN 3 ELSE 0) + (IF has_tool_call THEN 4 ELSE 0)
            + (IF has_factorial THEN 3 ELSE 0), 10)

\* __init__: iteration_count = 0, best_score = 0.0; the archive directory
\* of a first run holds no file. (passes: the passes of the while loop
\* started.)
EvolutionInit ==
    /\ EmptyArchive
    /\ extract = NoExtract
    /\ NoEvaluator
    /\ evaluation = NoEvaluation
    /\ metrics = [pc |-> "off"]
    /\ setup = [pc |-> "off"]
    /\ runs = [pc |-> "off"]
    /\ loop = NoLoop
    /\ framework = [pc |-> "while", iteration_count |-> 0, best_score |-> 0,
                    score |-> 0, archive_files |-> {}, passes |-> 0]

\* The except clause that prints and leaves iteration_count as it is.
EvolutionExceptWithoutIncrement(f) ==
    [f EXCEPT !.pc = "while"]

\* except Exception as e: the two prints and self.iteration_count += 1.
EvolutionExcept(f) ==
    [f EXCEPT !.pc = "while", !.iteration_count = @ + 1]

\* while self.iteration_count < 10: the next pass starts, or the loop ends
\* and "Evolution complete" is printed.
EvolutionWhile ==
    /\ framework.pc = "while"
    /\ framework.iteration_count < EvolutionPasses => framework.passes < MaxPasses
    /\ framework' = IF framework.iteration_count < EvolutionPasses
                    THEN [framework EXCEPT !.pc = "evaluate_agent", !.passes = @ + 1]
                    ELSE [framework EXCEPT !.pc = "complete"]
    /\ UNCHANGED <<archiveVars, extractVars, evalVars, patchVars, metrics, setup, runs, loopVars>>

\* score = self.evaluate_agent(): its own except clause returns 0.0, it
\* never raises.
EvolutionEvaluateAgent(failed, has_def, has_tool_call, has_factorial) ==
    /\ framework.pc = "evaluate_agent"
    /\ framework' = [framework EXCEPT
                       !.pc = "archive_agent",
                       !.score = IF failed THEN 0
                                 ELSE EvaluateAgentScore(has_def, has_tool_call,
                                                         has_factorial)]
    /\ UNCHANGED <<archiveVars, extractVars, evalVars, patchVars, metrics, setup, runs, loopVars>>

\* if score > self.best_score: self.best_score = score;
\* self.archive_agent(score), which writes archive/agent_v<iteration_count>.json
\* or raises (open failed) after best_score was assigned.
EvolutionArchiveAgent(ok) ==
    /\ framework.pc = "archive_agent"
    /\ framework' =
         IF framework.score > framework.best_score
         THEN IF ok
              THEN [framework EXCEPT
                      !.pc = "generate_improvement",
                      !.best_score = framework.score,
                      !.archive_files = @ \cup
                          {[iteration |-> framework.iteration_count,
                            score |-> framework.score]}]
              ELSE EvolutionExcept([framework EXCEPT !.best_score = framework.score])
         ELSE [framework EXCEPT !.pc = "generate_improvement"]
    /\ UNCHANGED <<archiveVars, extractVars, evalVars, patchVars, metrics, setup, runs, loopVars>>

\* improvement = self.generate_improvement(); the print of
\* improvement['content'][:200]; self.iteration_count += 1. self_modify
\* raises when the provider call fails, the slice when content is None.
EvolutionGenerateImprovement(raises) ==
    /\ framework.pc = "generate_improvement"
    /\ framework' = IF raises
                    THEN EvolutionExcept(framework)
                    ELSE [framework EXCEPT !.pc = "sleep", !.iteration_count = @ + 1]
    /\ UNCHANGED <<archiveVars, extractVars, evalVars, patchVars, metrics, setup, runs, loopVars>>

\* time.sleep(2) returns.
EvolutionSleep ==
    /\ framework.pc = "sleep"
    /\ framework' = [framework EXCEPT !.pc = "while"]
    /\ UNCHANGED <<archiveVars, extractVars, evalVars, patchVars, metrics, setup, runs, loopVars>>

EvolutionNext ==
    \/ EvolutionWhile
    \/ \E failed, has_def, has_tool_call, has_factorial \in BOOLEAN :
          EvolutionEvaluateAgent(failed, has_def, has_tool_call, has_factorial)
    \/ \E ok \in BOOLEAN : EvolutionArchiveAgent(ok)
    \/ \E raises \in BOOLEAN : EvolutionGenerateImprovement(raises)
    \/ EvolutionSleep

\* Every call of a pass returns or raises, and the process keeps executing.
EvolutionSpec == EvolutionInit /\ [][EvolutionNext]_vars /\ WF_vars(EvolutionNext)

----------------------------------------------------------------------------
\* Properties of SimpleArchive.

\* The steps of the model that belong to a call of save_agent.
SaveStep == conn.pc # "idle" \/ conn'.pc # "idle"

\* What one step adds to the committed tables.
NewAgents == agents' \ agents
NewPerf == performance_history' \ performance_history

\* C3: save_agent is all-or-nothing. In every state (so at every point where
\* another reader may look, also between the two INSERTs and after a failure)
\* each stored variant has exactly one performance record; and every step of
\* save_agent either adds nothing to the store, or adds one variant with a
\* fresh id together with the one record referencing it and returns that id.
\* A save_agent that returns by raising has added nothing.
SaveAgentAllOrNothing ==
    /\ [](\A a \in agents :
            Cardinality({p \in performance_history : p.agent_id = a.id}) = 1)
    /\ [][SaveStep =>
            /\ agents \subseteq agents'
            /\ performance_history \subseteq performance_history'
            /\ \/ /\ NewAgents = {} /\ NewPerf = {}
                  /\ conn'.pc = "idle" => call'.exc = "PersistenceFailure"
               \/ /\ Cardinality(NewAgents) = 1 /\ Cardinality(NewPerf) = 1
                  /\ \A a \in NewAgents, p \in NewPerf :
                        /\ p.agent_id = a.id
                        /\ \A b \in agents : b.id # a.id
                        /\ call'.op = "save_agent" /\ call'.pc = "done"
                        /\ call'.exc = None /\ call'.ret = a.id]_vars

\* C3 witness: a save_agent failed between its two INSERTs on an archive
\* that already holds a variant.
SaveFailedBetweenInserts ==
    /\ call.op = "save_agent" /\ call.pc = "done"
    /\ call.exc = "PersistenceFailure" /\ call.arg = "agent_inserted"
    /\ agents # {}

IsSortedByScoreDesc(rows) ==
    \A i \in 1..(Len(rows) - 1) : rows[i].score >= rows[i + 1].score

\* C4: select_parents(k) returns exactly min(k, functionalCount) variants,
\* all functional, sorted by score descending, also when k exceeds the
\* number of functional variants.
SelectParentsSortedTopK ==
    (call.op = "select_parents" /\ call.pc = "done") =>
        /\ Len(call.ret) = Min(call.arg, Cardinality(Functional(agents)))
        /\ \A i \in 1..Len(call.ret) : call.ret[i] \in Functional(agents)
        /\ IsSortedByScoreDesc(call.ret)

ParentOf(id) == IF HasAgent(id) THEN GetAgent(id).parent_id ELSE NoParent

RECURSIVE Ancestor(_, _)
\* The n-th ancestor of id along the stored parent links.
Ancestor(id, n) == IF n = 0 THEN id ELSE ParentOf(Ancestor(id, n - 1))

\* The parent chain from id ends (in a root or a missing row): no cycle.
ChainIsAcyclic(id) == \E n \in 0..MaxSaves : ~HasAgent(Ancestor(id, n))

\* C6: get_lineage(id) on an acyclic chain terminates, and what it returns
\* is the chain from id towards the root: empty when id is not stored, and
\* otherwise starting at id, each next entry the stored parent of the one
\* before, ending at a root or where the parent row is missing (no error).
GetLineageFollowsChain ==
    /\ []((call.op = "get_lineage" /\ call.pc = "done") =>
            /\ call.exc = None
            /\ ~HasAgent(call.arg) => call.ret = <<>>
            /\ HasAgent(call.arg) => (Len(call.ret) >= 1 /\ call.ret[1].id = call.arg)
            /\ \A i \in 1..Len(call.ret) :
                  /\ call.ret[i] \in agents
                  /\ i < Len(call.ret) => call.ret[i + 1].id = call.ret[i].parent_id
                  /\ i = Len(call.ret) => ~HasAgent(call.ret[i].parent_id))
    /\ ((call.op = "get_lineage" /\ call.pc = "loop" /\ ChainIsAcyclic(call.arg))
            ~> (call.op = "get_lineage" /\ call.pc = "done"))

\* C6 witness: a lineage of two variants that stops at a parent id whose row
\* is missing.
GetLineageStoppedAtMissingParent ==
    /\ call.op = "get_lineage" /\ call.pc = "done"
    /\ Len(call.ret) >= 2
    /\ call.ret[Len(call.ret)].parent_id # NoParent

\* C7: cleanup_old_agents(keep_n) deletes functional variants only, leaves
\* min(keep_n, functionalCount) functional variants, each scoring at least
\* as high as every deleted one, and leaves the non-functional variants as
\* they were.
CleanupKeepsTopN ==
    [][(call'.op = "cleanup_old_agents" /\ conn.pc = "idle") =>
        /\ agents' \subseteq agents
        /\ (agents \ agents') \subseteq Functional(agents)
        /\ Cardinality(Functional(agents')) =
              Min(call'.arg, Cardinality(Functional(agents)))
        /\ \A x \in Functional(agents'), y \in agents \ agents' : x.score >= y.score
        /\ agents' \ Functional(agents') = agents \ Functional(agents)]_vars

\* C7 witness: a cleanup with keep_n = 1 that kept one functional variant and
\* deleted another.
CleanupDeletedLowest ==
    /\ call.op = "cleanup_old_agents" /\ call.arg = 1
    /\ Cardinality(Functional(agents)) = 1
    /\ Cardinality(agents) < agent_seq

\* C8: get_statistics reports the number of stored variants, the number of
\* functional ones and success_rate = functional / total, which is 0 (and
\* no division by zero) for the empty archive.
StatisticsSuccessRate ==
    (call.op = "get_statistics" /\ call.pc = "done") =>
        /\ call.ret.total_agents = Cardinality(agents)
        /\ call.ret.functional_agents = Cardinality(Functional(agents))
        /\ call.ret.success_rate.den # 0
        /\ call.ret.success_rate.num * Cardinality(agents) =
              Cardinality(Functional(agents)) * call.ret.success_rate.den
        /\ Cardinality(agents) = 0 => call.ret.success_rate.num = 0

\* C8 witness: statistics of the empty archive.
StatisticsOfEmptyArchive ==
    /\ call.op = "get_statistics" /\ call.pc = "done"
    /\ agents = {}
    /\ call.ret.success_rate.num = 0

----------------------------------------------------------------------------
\* Properties of extract_patch_from_solution.

\* Line i opens a fenced block whose content, up to the closing fence at
\* line j, is a diff.
IsFencedDiff(text, i, j) ==
    /\ i + 1 < j
    /\ text[i] = FenceOpen /\ text[j] = FenceClose
    /\ \A m \in (i + 1)..(j - 1) : text[m] \in {DiffHeader, "+x"}

HasFencedDiff(text) == \E i, j \in 1..Len(text) : IsFencedDiff(text, i, j)

\* The content of the first fenced diff of text.
FirstFencedDiff(text) ==
    LET i == CHOOSE a \in 1..Len(text) :
                /\ \E b \in 1..Len(text) : IsFencedDiff(text, a, b)
                /\ \A c \in 1..(a - 1) : \A b \in 1..Len(text) : ~IsFencedDiff(text, c, b)
        j == CHOOSE b \in 1..Len(text) : IsFencedDiff(text, i, b)
    IN SubSeq(text, i + 1, j - 1)

HasDiffHeaderLine(text) == \E i \in 1..Len(text) : StartsWithDiffGit(text[i])

\* C9: when the solution text contains a fenced diff, extract returns the
\* content of that fenced diff, also when a diff-header line appears outside
\* the fence.
ExtractPrefersFencedDiff ==
    (extract.pc = "returned" /\ extract.fault = "none"
        /\ HasFencedDiff(extract.solution)) =>
            extract.out.patch = FirstFencedDiff(extract.solution)

\* C10: extract returns the empty string when the text has no fenced diff
\* and no diff-header line and the sandbox has no working-tree changes, and
\* also whenever a strategy failed with an internal error.
ExtractEmptyWhenNothingFound ==
    extract.pc = "returned" =>
        /\ (/\ extract.fault = "none"
            /\ ~HasFencedDiff(extract.solution)
            /\ ~HasDiffHeaderLine(extract.solution)
            /\ extract.tree = "clean") => extract.out.patch = <<>>
        /\ extract.out.caught => extract.out.patch = <<>>

----------------------------------------------------------------------------
\* Properties of SWEBenchEvaluator.evaluate_agent.

\* C1: every sandbox setup_repository created has been deleted when
\* evaluate_agent moves on to the next instance or returns, whichever way
\* the instance ended.
SandboxDeletedOnEveryExitPath ==
    ev.pc \in {"setup", "finish", "idle"} => sandboxes = {}

\* The results recorded for instance id in the run in progress.
ResultsOf(id) == {k \in 1..Len(ev.results) : ev.results[k].instance_id = id}

\* C2: an exception raised inside the try block of an instance (by
\* setup_repository, by the agent's solve_task, by a later statement) does
\* not leave evaluate_agent: a result with success = False, score = 0 and a
\* reason holding the exception text is recorded for that instance, the loop
\* goes on, and at its end every instance of the batch has a result.
ExceptionBecomesZeroScoreResult ==
    /\ \A x \in ev.caught :
          \E k \in ResultsOf(x.instance_id) :
              /\ ev.results[k].success = FALSE
              /\ ev.results[k].score = 0
              /\ x.text \in Range(ev.results[k].reason)
    /\ (ev.pc \in {"setup", "solve", "extract", "evaluate", "cleanup"}) =>
          /\ ev.i < ev.num_tasks
          /\ \A j \in 1..ev.i : ResultsOf(current_instances[j].instance_id) # {}
    /\ (ev.pc = "finish" \/ (ev.pc = "idle" /\ ev.caught # {})) =>
          /\ ev.i = ev.num_tasks
          /\ \A j \in 1..ev.num_tasks :
                ResultsOf(current_instances[j].instance_id) # {}

\* C2 witness: a run has returned in which the agent raised on the first
\* instance and the second instance went on to pass its tests.
RunWentOnAfterAgentRaised ==
    /\ ev.pc = "idle" /\ Len(results_history) = 1
    /\ [instance_id |-> 1, text |-> "agent error"] \in ev.caught
    /\ Len(ev.results) = 2
    /\ ev.results[1].reason = <<"Exception: ", "agent error">>
    /\ ev.results[2].instance_id = 2 /\ ev.results[2].success

----------------------------------------------------------------------------
\* Properties of SWEBenchLoader.evaluate_patch.

\* C11: when git apply does not accept the agent's patch (an empty file, a
\* text with no diff in it, a diff git rejects), evaluate_patch returns
\* success = False and score = 0 with the reason "Patch failed to apply: ...",
\* and has run neither git apply of the test patch nor the test command.
EvaluatePatchStopsAtApplyFailure ==
    (/\ evaluation.pc = "returned"
     /\ evaluation.env.write_ok
     /\ ~GitApply(evaluation.patch, evaluation.env)) =>
        /\ evaluation.out.success = FALSE
        /\ evaluation.out.score = 0
        /\ evaluation.out.reason[1] = "Patch failed to apply: "
        /\ TestApplyCmd \notin Range(evaluation.out.cmds)
        /\ TestCmd \notin Range(evaluation.out.cmds)
        /\ evaluation.out.cmds = <<ResetCmd, ApplyCmd>>

\* C11 witness: a prose patch was evaluated on an instance whose test patch
\* would apply and whose tests would pass, and the call returned the apply
\* failure.
UnparseablePatchWasRejected ==
    /\ evaluation.pc = "returned"
    /\ evaluation.patch = <<"text">>
    /\ evaluation.instance.test_patch = "tp"
    /\ evaluation.env = [write_ok |-> TRUE, apply_ok |-> TRUE,
                         test_apply_ok |-> TRUE, pytest |-> "exit 0"]
    /\ evaluation.out.success = FALSE
    /\ evaluation.out.reason = <<"Patch failed to apply: ", "stderr">>

----------------------------------------------------------------------------
\* Properties of evaluate_agent: what counts as passed.

\* The results of a list that report success.
Successes(results) == {k \in 1..Len(results) : results[k].success}

\* The conditions under which the instance being evaluated passes: a patch
\* was recovered, git apply accepted it, the test patch applied, pytest
\* exited with status 0.
PassConditions ==
    /\ ev.patch # <<>>
    /\ ev.env.write_ok
    /\ GitApply(ev.patch, ev.env)
    /\ Instance.test_patch # ""
    /\ ev.env.test_apply_ok
    /\ ev.env.pytest = "exit 0"

\* C12: the result evaluate_agent records for an instance reports success
\* exactly when a patch was recovered, git apply accepted it, the test
\* patch applied and pytest exited 0 (so no patch, or a nonzero exit, is a
\* failure); passed counts the instances with a successful result, during
\* the run and in the recorded run, whose score is passed / num_tasks.
PassedIffPatchAppliesAndTestsExitZero ==
    /\ ev.pc = "cleanup" =>
          /\ ev.results[Len(ev.results)].instance_id = Instance.instance_id
          /\ ev.results[Len(ev.results)].success <=> PassConditions
          /\ ev.results[Len(ev.results)].score =
                (IF PassConditions THEN 1 ELSE 0)
    /\ ev.pc \in {"setup", "solve", "extract", "evaluate", "cleanup", "finish"} =>
          ev.passed = Cardinality(Successes(ev.results))
    /\ \A r \in 1..Len(results_history) :
          /\ results_history[r].passed =
                Cardinality(Successes(results_history[r].results))
          /\ results_history[r].num_tasks > 0 =>
                results_history[r].score =
                    Frac(results_history[r].passed, results_history[r].num_tasks)

\* C12 witness: a run over two instances was recorded in which the first
\* instance had no recoverable patch (text without a diff, clean sandbox)
\* and failed, and the second passed its tests: passed = 1, score = 1/2.
NoPatchFailsAndExitZeroPasses ==
    /\ Len(results_history) = 1
    /\ Len(results_history[1].results) = 2
    /\ results_history[1].results[1].success = FALSE
    /\ results_history[1].results[1].reason = <<"Patch failed to apply: ", "stderr">>
    /\ results_history[1].results[2].success = TRUE
    /\ results_history[1].passed = 1
    /\ results_history[1].score = Frac(1, 2)

----------------------------------------------------------------------------
\* Properties of evaluate_agent: the recorded run.

\* C13: a recorded run holds exactly one result per iterated instance,
\* num_tasks = min(requested, loaded) in all, the i-th result carrying the
\* id of the i-th loaded instance, whichever step of an instance failed
\* (the removal of the sandbox included).
OneResultPerInstanceInOrder ==
    \A r \in 1..Len(results_history) :
        /\ Len(results_history[r].results) = results_history[r].num_tasks
        /\ \A i \in 1..Len(results_history[r].results) :
              /\ i <= Len(current_instances)
              /\ results_history[r].results[i].instance_id =
                    current_instances[i].instance_id

\* Two quotients are the same number.
SameNumber(a, b) == a.num * b.den = b.num * a.den

\* C14: the score evaluate_agent returns, and the score of the
\* run it records, is passed divided by the count the caller asked for
\* (0 when that count is 0), however many instances are loaded.
ScoreIsPassedOverRequested ==
    /\ ev.pc = "idle" =>
          SameNumber(ev.ret, IF ev.requested > 0
                             THEN Frac(ev.passed, ev.requested) ELSE Frac(0, 1))
    /\ (ev.pc = "idle" /\ ev.num_tasks > 0) =>
          SameNumber(results_history[Len(results_history)].score,
                     IF ev.requested > 0
                     THEN Frac(ev.passed, ev.requested) ELSE Frac(0, 1))

\* C15: every call of evaluate_agent that has returned appended
\* exactly one run, also when no instances are loaded or the count asked
\* for is 0: after n calls the history holds n runs.
EveryCallAppendsOneRun ==
    ev.pc = "idle" => Len(results_history) = ev.calls

----------------------------------------------------------------------------
\* Properties of InfiniteSelfImprovingFramework.

\* The process has ended: run_infinite_improvement returned, sys.exit(0),
\* or an uncaught exception.
Terminated == loop.pc \in {"returned", "exited", "crashed"}

\* C16: a SIGINT delivered while a step of an iteration (or the initial
\* evaluation, or a sleep) is executing does not interrupt that step: the
\* shutdown handler's work starts only at an iteration boundary, the test
\* of the while loop.
CancellationOnlyAtIterationBoundary ==
    \A k \in 1..Len(loop.handled_at) : loop.handled_at[k] = "while"

\* C17: when the process has ended after a SIGINT, export_final_results has
\* written the final export, wherever the signal arrived and whatever the
\* improvement log held.
FinalExportBeforeTermination ==
    (Terminated /\ loop.signals > 0) =>
        \E k \in 1..Len(loop.exports) : loop.exports[k].kind = "final"

\* C18: a step changes best_score or current_agent only when the score of
\* the candidate just evaluated is strictly greater than the best score
\* before the step, best_score then becoming that score; a candidate with
\* an equal or lower score leaves both unchanged; best_score never
\* decreases.
BestChangesOnlyOnStrictImprovement ==
    [][/\ ~Greater(loop.best_score, loop'.best_score)
       /\ (~SameNumber(loop'.best_score, loop.best_score)
             \/ loop'.current_agent # loop.current_agent) =>
               /\ Greater(loop.new_score, loop.best_score)
               /\ loop'.best_score = loop.new_score
       /\ (loop.pc = "update_best" /\ loop'.pc = "show_progress_summary"
             /\ ~Greater(loop.new_score, loop.best_score)) =>
               /\ loop'.best_score = loop.best_score
               /\ loop'.current_agent = loop.current_agent]_vars

\* C18 witness: iteration 1 raised the best score and made its agent the
\* current one; the candidate of iteration 2 scored exactly the same and
\* left both as they were.
EqualScoreLeftBestUnchanged ==
    /\ loop.pc = "show_progress_summary"
    /\ loop.iteration = 2
    /\ Len(loop.improvement_log) = 3
    /\ loop.improvement_log[2].description = "Performance improvement"
    /\ loop.improvement_log[3].description = "Exploration attempt"
    /\ SameNumber(loop.improvement_log[3].score, loop.improvement_log[2].score)
    /\ loop.best_score = loop.improvement_log[2].score
    /\ loop.current_agent = 1

\* C19: an exception raised by a step of an iteration never ends the loop
\* or the process: from a step of an iteration the process only goes on
\* inside the iteration or to the except clause's time.sleep(30), never to
\* an uncaught exception; every exception the clause takes is followed by
\* the 30 s sleep; after it the while test runs and, no SIGINT having been
\* received, the next iteration starts.
IterationExceptionIsCaught ==
    /\ [](loop.pc = "crashed" => loop.crashed_at \notin IterationSteps)
    /\ [][(loop.pc \in IterationSteps) =>
             (loop'.pc \in IterationSteps
                \/ (loop'.pc = "sleep" /\ loop'.sleep \in {ShortSleep, LongSleep}))]_vars
    /\ [][(loop'.errors # loop.errors) =>
             (loop'.errors = loop.errors + 1
                /\ loop'.pc = "sleep" /\ loop'.sleep = LongSleep
                /\ (loop'.signals = loop.signals => loop'.running = loop.running))]_vars
    /\ [][(loop.pc = "sleep" /\ loop'.signals = loop.signals) =>
             loop'.pc = "while"]_vars
    /\ [][(loop.pc = "while" /\ loop.running /\ loop'.signals = loop.signals) =>
             (loop'.pc = "self_modify" /\ loop'.iteration = loop.iteration + 1)]_vars
    /\ ((loop.pc = "sleep" /\ loop.sleep = LongSleep /\ loop.running
           /\ loop.iteration < MaxIterations)
          ~> (loop.pc = "self_modify" \/ ~loop.running))

\* C19 witness: show_progress_summary raised in iteration 1, the except
\* clause took it, and without any SIGINT iteration 2 has started.
LoopWentOnAfterSummaryRaised ==
    /\ loop.pc = "self_modify"
    /\ loop.iteration = 2
    /\ loop.errors = 1
    /\ loop.signals = 0
    /\ Len(loop.improvement_log) = 2

----------------------------------------------------------------------------
\* Properties of SimpleArchive: parent links.

\* C20: in every archive that save_agent and cleanup_old_agents can
\* produce, an agent with a parent_id has a parent_id smaller than its own
\* id (a variant created earlier), so that the parent links form a forest,
\* no chain of them comes back to an agent, and get_lineage terminates.
ParentPrecedesChild ==
    /\ \A a \in agents : a.parent_id # NoParent => a.parent_id < a.id
    /\ \A a \in agents : ChainIsAcyclic(a.id)

----------------------------------------------------------------------------
\* Properties of SimpleArchive: stored rows.

\* C21: no step of an archive operation (save_agent of another variant,
\* get_agent, get_best_agent, get_top_agents, get_statistics,
\* select_parents, export_best_agent, cleanup_old_agents) changes a field
\* of a stored row: after the step the row is there as it was, or it is
\* gone, its id not in the table, and the step was cleanup_old_agents.
StoredRowsNeverChange ==
    [][\A a \in agents :
          \/ a \in agents'
          \/ /\ call'.op = "cleanup_old_agents"
             /\ \A b \in agents' : b.id # a.id]_vars

\* C21 witness: two variants were saved and cleanup_old_agents has removed
\* the second one; the first is still stored.
CleanupRemovedOneRowOnly ==
    /\ call.op = "cleanup_old_agents"
    /\ agent_seq = 2
    /\ Cardinality(agents) = 1
    /\ \E a \in agents : a.id = 1

----------------------------------------------------------------------------
\* Properties of SWEBenchEvaluator: construction.

\* C22: when load_swe_bench_verified fails the evaluator is constructed
\* all the same, with no instances, and every evaluate_agent call returns
\* 0.0 at once: no call gets past the first check, no sandbox exists and
\* solve_task is never reached.
FailedLoadEvaluatesNothing ==
    ~ev.success =>
        /\ current_instances = <<>>
        /\ ev.pc = "idle"
        /\ ev.num_tasks = 0
        /\ sandboxes = {}
        /\ ev.solution = <<>>
        /\ SameNumber(ev.ret, Frac(0, 1))

\* C22 witness: the load failed and evaluate_agent has been called twice
\* with a positive number of tasks and has returned.
EvaluatedTwiceAfterFailedLoad ==
    /\ ~ev.success
    /\ ev.calls = 2
    /\ ev.requested > 0
    /\ ev.pc = "idle"

----------------------------------------------------------------------------
\* Properties of evaluate_agent: external processes.

\* C23: no call of evaluate_agent is left waiting on a child process that
\* does not exit; every process is cut off by a timeout and the instance
\* gets its failed result.
NoCallWaitsOnAProcess == ev.pc # "blocked"

----------------------------------------------------------------------------
\* Properties of get_improvement_metrics.

\* The runs before the most recent RecentRuns, at most RecentRuns of them.
PrecedingRuns(history) == Slice(history, 2 * RecentRuns, RecentRuns)

\* C24: with fewer than two runs the trend is insufficient_data; with at
\* least one run before the most recent five, the trend is that of the mean
\* of the most recent five minus the mean of the runs just before them
\* (five, or as many as there are).
TrendComparesRecentWithPreceding ==
    metrics.pc = "returned" =>
        /\ Len(results_history) < 2 => metrics.out.trend = "insufficient_data"
        /\ Len(results_history) > RecentRuns =>
              metrics.out.trend =
                  Trend(Minus(Avg(ScoresOf(Last(results_history, RecentRuns))),
                              Avg(ScoresOf(PrecedingRuns(results_history)))))

----------------------------------------------------------------------------
\* Properties of SWEBenchLoader.evaluate_patch: the order of its steps.

\* The four commands in the order evaluate_patch and run_tests issue them.
StepsInOrder == <<ResetCmd, ApplyCmd, TestApplyCmd, TestCmd>>

\* C25: the commands evaluate_patch has run are an initial part of reset,
\* apply the agent's patch, apply the test patch, run the tests; the test
\* command has run only when both patches were applied; an instance with
\* no test patch, or a test patch git rejects, gives success = False and
\* score = 0 with the reason that says so and no test run; and when the
\* test command has run, success is whether it exited with status 0.
EvaluatePatchStepsInFixedOrder ==
    evaluation.pc = "returned" =>
        /\ evaluation.out.cmds = Take(StepsInOrder, Len(evaluation.out.cmds))
        /\ TestCmd \in Range(evaluation.out.cmds) =>
              /\ GitApply(evaluation.patch, evaluation.env)
              /\ evaluation.instance.test_patch # ""
              /\ evaluation.env.test_apply_ok
              /\ evaluation.out.success = (evaluation.env.pytest = "exit 0")
        /\ (/\ evaluation.env.write_ok
            /\ GitApply(evaluation.patch, evaluation.env)
            /\ evaluation.instance.test_patch = "") =>
              /\ evaluation.out.success = FALSE
              /\ evaluation.out.score = 0
              /\ evaluation.out.reason = <<"No test patch available">>
              /\ TestCmd \notin Range(evaluation.out.cmds)
        /\ (/\ evaluation.env.write_ok
            /\ GitApply(evaluation.patch, evaluation.env)
            /\ evaluation.instance.test_patch # ""
            /\ ~evaluation.env.test_apply_ok) =>
              /\ evaluation.out.success = FALSE
              /\ evaluation.out.score = 0
              /\ evaluation.out.reason[1] = "Failed to apply test patch: "
              /\ TestCmd \notin Range(evaluation.out.cmds)

\* C25 witness: the agent's diff applied, git rejected the test patch, and
\* the call returned without a test run although pytest would have exited 0.
TestPatchFailureStoppedBeforeTests ==
    /\ evaluation.pc = "returned"
    /\ GitApply(evaluation.patch, evaluation.env)
    /\ evaluation.env.write_ok
    /\ evaluation.instance.test_patch = "tp"
    /\ ~evaluation.env.test_apply_ok
    /\ evaluation.env.pytest = "exit 0"
    /\ evaluation.out.cmds = <<ResetCmd, ApplyCmd, TestApplyCmd>>
    /\ evaluation.out.success = FALSE

----------------------------------------------------------------------------
\* Properties of SWEBenchLoader.setup_repository.

\* The directory of the instance the call is for.
SetupDir == setup.disk[current_instances[setup.i].instance_id]

\* C26: once setup_repository has got past the removal, nothing an earlier
\* evaluation left for the instance is on disk; the path it returns, the
\* one solve_task is given, names a working copy cloned by this call and
\* not edited since; the directories of other instances are as they were.
SetupStartsFromFreshCopy ==
    setup.pc \in {"returned", "solve_task", "except"} =>
        /\ (setup.out.raised # <<"rmtree error">>) =>
              (SetupDir.exists => SetupDir.fresh /\ ~SetupDir.modified)
        /\ setup.out.raised = <<>> =>
              /\ setup.out.path = current_instances[setup.i].instance_id
              /\ SetupDir.exists /\ SetupDir.fresh /\ ~SetupDir.modified
        /\ setup.pc = "solve_task" =>
              /\ setup.repo_dir = current_instances[setup.i].instance_id
              /\ SetupDir.exists /\ SetupDir.fresh /\ ~SetupDir.modified
        /\ \A id \in DOMAIN setup.disk :
              id # current_instances[setup.i].instance_id =>
                  setup.disk[id] = setup.before[id]

\* C26 witness: an edited working copy of the instance was on disk, and
\* solve_task has been given a fresh one.
EditedCopyWasReplaced ==
    /\ setup.pc = "solve_task"
    /\ setup.before[current_instances[setup.i].instance_id].exists
    /\ setup.before[current_instances[setup.i].instance_id].modified
    /\ SetupDir = Dir(TRUE, "base_commit", FALSE)

\* C27: when git clone fails, setup_repository raises "Failed to clone
\* repository" and the try block ends in the except clause with a result
\* of success = False and score = 0; when git clone succeeds and git
\* checkout of the base commit fails, nothing is raised, the path of the
\* working copy on the default branch is returned and solve_task is the
\* next step.
CloneFailureRaisesCheckoutFailureDoesNot ==
    setup.pc \in {"returned", "solve_task", "except"} =>
        /\ (setup.out.raised # <<"rmtree error">> /\ ~setup.env.clone_ok) =>
              /\ setup.out.raised[1] = "Failed to clone repository: "
              /\ setup.pc # "solve_task"
              /\ setup.pc = "except" =>
                    /\ Len(setup.results) = 1
                    /\ setup.results[1].success = FALSE
                    /\ setup.results[1].score = 0
                    /\ setup.results[1].instance_id =
                          current_instances[setup.i].instance_id
        /\ (/\ setup.out.raised # <<"rmtree error">>
            /\ setup.env.clone_ok
            /\ ~setup.env.checkout_ok) =>
              /\ setup.out.raised = <<>>
              /\ setup.out.path = current_instances[setup.i].instance_id
              /\ SetupDir = Dir(TRUE, "default", FALSE)
              /\ setup.pc # "except"
              /\ setup.results = <<>>

\* C27 witness: the checkout of the base commit failed and solve_task has
\* been given the working copy on the default branch.
SolveTaskOnDefaultBranch ==
    /\ setup.pc = "solve_task"
    /\ setup.env.clone_ok
    /\ ~setup.env.checkout_ok
    /\ SetupDir.commit = "default"
    /\ setup.repo_dir = current_instances[setup.i].instance_id

----------------------------------------------------------------------------
\* Properties of run_infinite_improvement: intermediate exports.

IntermediateExports == SelectSeq(loop.exports, LAMBDA e : e.kind = "intermediate")

\* C28: in a run whose evaluations and archive writes all succeed, when the
\* while test is reached after iteration N, one intermediate export has
\* been written for every multiple of 5 up to N.
IntermediateExportEveryFifthIteration ==
    loop.pc = "while" =>
        Len(IntermediateExports) = loop.iteration \div ExportEvery

----------------------------------------------------------------------------
\* Properties of run_infinite_improvement: what it archives.

\* C29: the baseline is stored with no parent and every other agent the
\* loop stored has the baseline's id as parent_id; when save_agent has
\* returned for a candidate, improvement or not, the archive holds a row
\* for it with the score of its evaluation and that parent.
EveryCandidateIsChildOfBaseline ==
    /\ \A a \in agents :
          a.parent_id = IF a.id = loop.initial_id THEN NoParent ELSE loop.initial_id
    /\ loop.initial_id # NoParent => \E a \in agents : a.id = loop.initial_id
    /\ loop.pc = "update_best" =>
          \E a \in agents :
             /\ a.id = agent_seq
             /\ a.id # loop.initial_id
             /\ a.score = loop.new_score
             /\ a.parent_id = loop.initial_id

\* C29 witness: the candidate of iteration 1 improved on the baseline and
\* became the current agent; the candidate of iteration 2, made from it, did
\* not improve, and is stored with the baseline as parent.
ExplorationStoredUnderBaseline ==
    /\ loop.pc = "update_best"
    /\ loop.iteration = 2
    /\ loop.current_agent = 1
    /\ ~loop.is_improvement
    /\ Cardinality(agents) = 3
    /\ \E a \in agents : a.id = 3 /\ a.parent_id = 1 /\ loop.initial_id = 1

----------------------------------------------------------------------------
\* Properties of evaluate_agent: what the agent is handed.

\* C30: in two runs on an instance that differ in its test patch only,
\* solve_task is handed the same problem text and the same directory
\* content, with no test_patch.patch in it, and the same patch is
\* extracted; test_patch.patch is in neither sandbox from the return of
\* setup_repository until evaluate_patch is called, after solve_task and
\* the extraction.
TestPatchHiddenFromAgent ==
    runs.pc \in {"solve", "extract", "evaluate", "cleanup", "done"} =>
        /\ runs.pc \in {"solve", "extract", "evaluate"} =>
              /\ runs.a.files.test_patch = ""
              /\ runs.b.files.test_patch = ""
        /\ runs.pc # "solve" =>
              /\ runs.a.given = runs.b.given
              /\ runs.a.given.problem = runs.a.instance.problem_statement
              /\ runs.a.given.repo.test_patch = ""
              /\ runs.a.patch = runs.b.patch

\* C30 witness: an earlier evaluation had left its directory, the two runs
\* carry different test patches, both agents were handed the same inputs,
\* and evaluate_patch has since written each run's test patch.
TestPatchesWrittenAfterExtraction ==
    /\ runs.pc = "cleanup"
    /\ runs.left
    /\ runs.a.given = runs.b.given
    /\ runs.a.given.problem = "issue"
    /\ runs.a.files.test_patch = "tp1"
    /\ runs.b.files.test_patch = "tp2"

----------------------------------------------------------------------------
\* Properties of SimpleArchive: ids.

\* The step in which save_agent commits and returns its id.
SaveReturns == conn.pc = "perf_inserted" /\ call'.op = "save_agent" /\ call'.exc = None

\* C31: the id save_agent returns is greater than the id of every row
\* stored and of every variant saved before (each committed save left its
\* performance record, which nothing deletes), so no id is given twice,
\* also after cleanup_old_agents deleted the rows with the highest ids.
SavedIdsIncrease ==
    [][SaveReturns =>
          /\ \A a \in agents : a.id < call'.ret
          /\ \A p \in performance_history : p.agent_id < call'.ret
          /\ \E a \in agents' : a.id = call'.ret]_vars

\* C31 witness: variant 1 was saved and deleted by cleanup_old_agents, and
\* the next save_agent has returned 2.
SavedAfterCleanupOfHighestId ==
    /\ call.op = "save_agent"
    /\ call.pc = "done"
    /\ call.exc = None
    /\ call.ret = 2
    /\ \A a \in agents : a.id = 2
    /\ \E p \in performance_history : p.agent_id = 1

----------------------------------------------------------------------------
\* Properties of extract_patch_from_solution: the order of the strategies.

\* The lines of text from the first one that starts with "diff --git" on.
FromFirstDiffHeader(text) ==
    LET i == CHOOSE a \in 1..Len(text) :
                /\ StartsWithDiffGit(text[a])
                /\ \A c \in 1..(a - 1) : ~StartsWithDiffGit(text[c])
    IN SubSeq(text, i, Len(text))

\* C32: when no strategy fails with an error, a text without a fenced diff
\* that has a diff-header line gives the lines from the first such line to
\* the end, and no git command has run and the tree is as it was; git diff
\* has run only for a text with neither a fenced diff nor a diff-header
\* line; git add has run only when git diff printed nothing.
ExtractStopsAtFirstStrategy ==
    (extract.pc = "returned" /\ extract.fault = "none") =>
        /\ (~HasFencedDiff(extract.solution) /\ HasDiffHeaderLine(extract.solution)) =>
              /\ extract.out.patch = FromFirstDiffHeader(extract.solution)
              /\ extract.out.cmds = <<>>
              /\ extract.out.tree = extract.tree
        /\ "git diff" \in Range(extract.out.cmds) =>
              /\ ~HasFencedDiff(extract.solution)
              /\ ~HasDiffHeaderLine(extract.solution)
        /\ "git add" \in Range(extract.out.cmds) =>
              /\ "git diff" \in Range(extract.out.cmds)
              /\ GitDiff(extract.tree).stdout = <<>>

----------------------------------------------------------------------------
\* Properties of SWEBenchLoader.run_tests: the timeout.

\* C33: when the test command is cut off by its timeout, run_tests returns
\* passed = False with the text of TimeoutExpired as reason, and
\* evaluate_patch returns success = False and score = 0 to its caller.
TimeoutIsAFailedRun ==
    (/\ evaluation.pc = "returned"
     /\ TestCmd \in Range(evaluation.out.cmds)
     /\ evaluation.env.pytest = "timeout") =>
        /\ RunTests(evaluation.instance, evaluation.env).passed = FALSE
        /\ evaluation.out.success = FALSE
        /\ evaluation.out.score = 0
        /\ evaluation.out.reason = <<"TimeoutExpired">>

\* C33 witness: both patches applied, pytest ran into the timeout, and
\* evaluate_patch has returned the failure.
TestsTimedOutAndCallReturned ==
    /\ evaluation.pc = "returned"
    /\ evaluation.env = [write_ok |-> TRUE, apply_ok |-> TRUE,
                         test_apply_ok |-> TRUE, pytest |-> "timeout"]
    /\ evaluation.out.cmds = <<ResetCmd, ApplyCmd, TestApplyCmd, TestCmd>>
    /\ evaluation.out.success = FALSE
    /\ evaluation.out.reason = <<"TimeoutExpired">>

----------------------------------------------------------------------------
\* Properties of run_infinite_improvement: the order of its phases.

\* The phase of the process: 1 baseline, 2 iterating, 3 shutting down (a
\* SIGINT has been delivered), 4 terminated.
Phase(l) ==
    IF l.pc \in {"returned", "exited", "crashed"} THEN 4
    ELSE IF l.signals > 0 THEN 3
    ELSE IF l.pc \in {"initial_evaluation", "save_initial"} THEN 1
    ELSE 2

\* C34: the process never goes back to an earlier phase; a step of an
\* iteration is reached only with the baseline evaluated and stored in the
\* archive; and once a SIGINT has been delivered no iteration starts: the
\* iteration counter stays and self_modify is not entered.
PhasesInOrder ==
    /\ [][Phase(loop') >= Phase(loop)]_vars
    /\ [](loop.pc \in IterationSteps =>
             /\ loop.iteration >= 1
             /\ loop.initial_id # NoParent
             /\ \E a \in agents : a.id = loop.initial_id /\ a.parent_id = NoParent
             /\ loop.improvement_log # <<>>
             /\ loop.improvement_log[1].iteration = 0
             /\ current_instances # <<>> => results_history # <<>>)
    /\ [][loop.signals > 0 =>
             /\ loop'.iteration = loop.iteration
             /\ (loop'.pc = "self_modify" => loop.pc = "self_modify")]_vars

\* C34 witness: a SIGINT arrived during the evaluation of iteration 1, and
\* run_infinite_improvement has returned without starting iteration 2.
LoopEndedAfterSignalInIteration ==
    /\ loop.pc = "returned"
    /\ loop.signals = 1
    /\ loop.handled_at = <<"evaluate">>
    /\ loop.iteration = 1
    /\ loop.iteration < MaxIterations

----------------------------------------------------------------------------
\* Properties of run_infinite_improvement: the pass after a failed one.

\* A pass of the while loop starts.
PassStarts == loop.pc = "while" /\ loop'.pc = "self_modify"

\* C35: the pass that starts after a pass ended in the except clause has
\* the iteration number of the failed pass.
RetryKeepsIterationNumber ==
    [][(PassStarts /\ loop.failed_iteration # 0) =>
          loop'.iteration = loop.failed_iteration]_vars

\* C35, amended: every pass that starts, after a failed pass as after any
\* other, has an iteration number one higher than the pass before it: a
\* failed pass has used up its number and the pass after it is a new
\* iteration.
FailedPassConsumesIterationNumber ==
    [][PassStarts =>
          /\ loop'.iteration = loop.iteration + 1
          /\ loop.failed_iteration # 0 =>
                (loop.failed_iteration = loop.iteration
                   /\ loop'.iteration = loop.failed_iteration + 1)]_vars

\* C35 witness: iteration 1 ended in the except clause, no SIGINT arrived,
\* and the pass after it is running as iteration 2.
PassAfterFailureIsIterationTwo ==
    /\ loop.pc = "self_modify"
    /\ loop.failed_iteration = 1
    /\ loop.errors = 1
    /\ loop.signals = 0
    /\ loop.iteration = 2

----------------------------------------------------------------------------
\* Properties of SimpleArchive: performance records.

\* C36: every performance record's agent_id is the id of a row of agents
\* (FOREIGN KEY (agent_id) REFERENCES agents (id)), after any sequence of
\* save_agent and cleanup_old_agents.
PerformanceRecordsHaveTheirAgent ==
    \A p \in performance_history : \E a \in agents : a.id = p.agent_id

\* C37: cleanup_old_agents(keep_n) with keep_n >= 1, called right after
\* get_best_agent returned a variant, does not delete that variant, and
\* get_best_agent still returns it: the variant is the only best row of the
\* archive after the cleanup.
CleanupKeepsBestAgent ==
    [][(/\ call.op = "get_best_agent"
        /\ call.ret # Nothing
        /\ call'.op = "cleanup_old_agents"
        /\ call'.arg >= 1)
       => BestRows(agents') = {call.ret[1]}]_vars

----------------------------------------------------------------------------
\* Properties of the improvement loop: the best score and the archive.

\* C38: at every iteration boundary (the while test) of the loop started on
\* an empty archive, best_score is the maximum score among the variants
\* saved so far, the score of get_best_agent().
BestScoreIsArchiveMaximum ==
    loop.pc = "while" =>
        /\ \A a \in agents : ~Greater(a.score, loop.best_score)
        /\ \E a \in Functional(agents) : SameNumber(a.score, loop.best_score)

\* The same statement at the boundaries no SIGINT preceded.
BestScoreIsArchiveMaximumWithoutSignal ==
    loop.signals = 0 => BestScoreIsArchiveMaximum

----------------------------------------------------------------------------
\* Properties of evaluate_agent: the scores of a recorded run.

\* C39: in every recorded run each result's score is 1 when its success is
\* true and 0 otherwise, passed is the number of results with success true,
\* and the run's score lies between 0 and 1.
RecordedScoresFollowSuccess ==
    \A r \in 1..Len(results_history) :
        /\ \A k \in 1..Len(results_history[r].results) :
              results_history[r].results[k].score =
                  (IF results_history[r].results[k].success THEN 1 ELSE 0)
        /\ results_history[r].passed =
              Cardinality(Successes(results_history[r].results))
        /\ results_history[r].score.den > 0
        /\ results_history[r].score.num >= 0
        /\ results_history[r].score.num <= results_history[r].score.den

\* C39 witness: a recorded run over one instance that passed its tests and
\* whose sandbox could not be removed: a successful result with score 1, the
\* zero-score result of the except clause, passed = 1 and score 1/1.
PassedInstanceFollowedByExceptionResult ==
    /\ Len(results_history) >= 1
    /\ results_history[1].num_tasks = 1
    /\ Len(results_history[1].results) = 2
    /\ results_history[1].results[1].success
    /\ results_history[1].results[1].score = 1
    /\ ~results_history[1].results[2].success
    /\ results_history[1].results[2].score = 0
    /\ results_history[1].passed = 1
    /\ results_history[1].score = Frac(1, 1)

----------------------------------------------------------------------------
\* Properties of SelfImprovingFramework.run_evolution_loop.

\* C40: run_evolution_loop ends after exactly 10 passes of its while loop,
\* whichever passes end in the except clause: at every while test
\* iteration_count is the number of passes made (one increment per pass),
\* the loop is left with both at 10, and it is left eventually; best_score
\* never decreases; a step that writes an archive file is made with that
\* pass's score strictly greater than the best score before it.
EvolutionLoopEndsAfterTenPasses ==
    /\ [](framework.pc = "while" =>
             framework.iteration_count = framework.passes)
    /\ [](framework.pc = "complete" =>
             /\ framework.passes = EvolutionPasses
             /\ framework.iteration_count = EvolutionPasses)
    /\ <>(framework.pc = "complete")
    /\ [][/\ framework'.best_score >= framework.best_score
          /\ framework'.archive_files # framework.archive_files =>
                framework.score > framework.best_score]_vars

\* C40 witness: the loop ended after passes that wrote two archive files
\* and a later pass whose archive_agent raised: the best score is one no
\* file records.
EvolutionCompleteAfterMixedPasses ==
    /\ framework.pc = "complete"
    /\ Cardinality(framework.archive_files) = 2
    /\ \A file \in framework.archive_files : file.score < framework.best_score

====
